---- MODULE Spec2Model ----
(***************************************************************************)
(* Thermal field analysis and cooling optimisation                          *)
(* (src/scripts/thermal_field.py) and the screen feed witnessing layer      *)
(* (src/scripts/screen_feed_witnessing.py).                                 *)
(*                                                                          *)
(* Real numbers are fixed-point integers in units of 1/SCALE (milli-units): *)
(* 298.15 K is 298150, a load of 0.5 is 500.  EPSILON = 1e-10 lies below    *)
(* this resolution: x / (s + EPSILON) is x / s when s # 0 and 0 when        *)
(* x = s = 0, and "x < EPSILON" is "x <= 0" on the grid.                    *)
(*                                                                          *)
(* numpy buffers and ThermalState objects live on heaps (arrays, objs) and  *)
(* are named by their index, so that two holders of the same object are     *)
(* two holders of the same index.                                           *)
(***************************************************************************)
EXTENDS Integers, Sequences, FiniteSets, TLC

VARIABLES
    arrays,     \* heap of numpy buffers (np.ndarray), index = identity
    objs,       \* heap of ThermalState objects, fields are buffer indices
    baseline,   \* analyzer -> self.baseline_temp
    history,    \* analyzer -> self.history, a sequence of ThermalState identities
    optimizer,  \* CoolingOptimizer: [alpha, beta]
    ret,        \* analyzer -> the last call on it and its outcome
    optCalls,   \* the optimize_temperature calls made, in order: arguments and outcome
    appended,   \* analyzer -> the state and the field values of each append, as of the call
    writes,     \* number of in-place buffer writes the caller has made
    layer,      \* ScreenFeedWitnessingLayer: its components' fields
    layerRet,   \* the last call on the layer or one of its components, and what it returned
    callers,    \* caller -> its position in its program, the states its calls returned for
    voiceLayer, \* VoiceIntegrationLayer: its components' fields
    voiceRet,   \* the last call on the voice layer or one of its components
    lists,      \* heap of the list objects the input processor created
    flushed     \* the caller's notes: the lists flush_buffer returned, the chunks buffered since

thermalVars == <<arrays, objs, baseline, history, optimizer, ret, optCalls, appended, writes>>

screenVars == <<layer, layerRet>>

callerVars == <<callers>>

voiceVars == <<voiceLayer, voiceRet, lists, flushed>>

vars == <<thermalVars, callerVars, screenVars, voiceVars>>

----------------------------------------------------------------------------
(* Bounds of the model *)

MaxLen == 3        \* longest buffer
MaxHist == 3       \* history entries over all analyzers
MaxWrites == 1     \* in-place writes by the caller
MaxCalls == 2      \* optimize_temperature calls
MaxWitness == 6    \* consented witness_interaction calls
MaxExtract == 8    \* extract_paradigm calls that match a paradigm
MaxAdapt == 3      \* adaptations proposed to a controller
MaxChunks == 3     \* buffer_input calls
MaxFlush == 3      \* flush_buffer calls
MaxVoice == 3      \* process_voice_input calls
MaxAnalyze == 2    \* patterns detected by direct analyze_text calls

----------------------------------------------------------------------------
(* Fixed-point arithmetic *)

SCALE == 10 ^ 3

Abs(x) == IF x < 0 THEN -x ELSE x

Max2(a, b) == IF a >= b THEN a ELSE b

\* division truncating toward zero
TDiv(a, b) ==
    IF (a >= 0) = (b > 0) THEN Abs(a) \div Abs(b) ELSE -(Abs(a) \div Abs(b))

Mul(a, b) == TDiv(a * b, SCALE)

Div(a, b) == TDiv(a * SCALE, b)

\* x / (s + EPSILON)
DivEps(x, s) == IF s = 0 THEN 0 ELSE Div(x, s)

\* x < EPSILON
LtEps(x) == x <= 0

\* x > EPSILON
GtEps(x) == x > 0

RECURSIVE SqrtIter(_, _, _)
SqrtIter(n, lo, hi) ==
    IF lo >= hi THEN lo
    ELSE LET mid == (lo + hi + 1) \div 2
         IN IF mid * mid <= n THEN SqrtIter(n, mid, hi) ELSE SqrtIter(n, lo, mid - 1)

\* np.sqrt on a value in units of 1/SCALE^2, result in units of 1/SCALE
Sqrt(n) == SqrtIter(n, 0, 46340)

\* ln 2
LN2 == (693147 * SCALE) \div 10 ^ 6

RECURSIVE LnReduce(_, _)
LnReduce(x, k) ==
    IF x >= 2 * SCALE THEN LnReduce(x \div 2, k + 1)
    ELSE IF x < SCALE THEN LnReduce(2 * x, k - 1)
    ELSE <<x, k>>

\* np.log, x > 0: ln x = k ln 2 + 2 atanh((m - 1) / (m + 1)), x = m 2^k, 1 <= m < 2
Ln(x) ==
    LET r == LnReduce(x, 0)
        y == Div(r[1] - SCALE, r[1] + SCALE)
        y2 == Mul(y, y)
        y3 == Mul(y, y2)
        y5 == Mul(y3, y2)
        y7 == Mul(y5, y2)
    IN r[2] * LN2 + 2 * (y + y3 \div 3 + y5 \div 5 + y7 \div 7)

\* pi / 2
HALF_PI == (1570796 * SCALE) \div 10 ^ 6

AtanSeries(x) ==
    LET x2 == Mul(x, x)
        x3 == Mul(x, x2)
        x5 == Mul(x3, x2)
        x7 == Mul(x5, x2)
        x9 == Mul(x7, x2)
    IN x - x3 \div 3 + x5 \div 5 - x7 \div 7 + x9 \div 9

\* arctan on [0, oo): the series near 0, pi/4 + arctan((x - 1) / (x + 1)) around 1,
\* pi/2 - arctan(1 / x) beyond
ArctanPos(x) ==
    IF 5 * x <= 2 * SCALE THEN AtanSeries(x)
    ELSE IF 2 * x <= 5 * SCALE THEN HALF_PI \div 2 + AtanSeries(Div(x - SCALE, x + SCALE))
    ELSE HALF_PI - AtanSeries(Div(SCALE, x))

\* np.arctan
Arctan(x) == IF x < 0 THEN -ArctanPos(-x) ELSE ArctanPos(x)

----------------------------------------------------------------------------
(* numpy primitives on 1-D buffers *)

RECURSIVE SumSeq(_)
SumSeq(s) == IF s = <<>> THEN 0 ELSE s[1] + SumSeq(Tail(s))

RECURSIVE MaxSeq(_)
MaxSeq(s) == IF Len(s) = 1 THEN s[1] ELSE Max2(s[1], MaxSeq(Tail(s)))

\* np.mean
Mean(s) == TDiv(SumSeq(s), Len(s))

\* np.std (population standard deviation)
Std(s) ==
    LET m == Mean(s)
    IN Sqrt(TDiv(SumSeq([i \in 1..Len(s) |-> (s[i] - m) * (s[i] - m)]), Len(s)))

\* np.std(s) + EPSILON: the smallest grid value that is not below the standard
\* deviation (0 for a constant s, where x / (0 + EPSILON) is 0 for x = 0)
StdEps(s) ==
    LET m == Mean(s)
        sq == SumSeq([i \in 1..Len(s) |-> (s[i] - m) * (s[i] - m)])
        r == Sqrt(TDiv(sq, Len(s)))
    IN IF r * r * Len(s) >= sq THEN r ELSE r + 1

\* mutant: elementwise arithmetic that accepts equal shapes only
SameShape(a, b) == Len(a) = Len(b)

\* shapes (n,) and (m,) broadcast when n = m or one of them is 1
Broadcastable(a, b) == Len(a) = Len(b) \/ Len(a) = 1 \/ Len(b) = 1

At(a, i) == IF Len(a) = 1 THEN a[1] ELSE a[i]

BLen(a, b) == Max2(Len(a), Len(b))

\* mutant: np.gradient(f, edge_order=2), which needs three elements
GradientRaisesBelowThree(f) == Len(f) < 3

\* np.gradient needs at least edge_order + 1 = 2 elements, else ValueError
GradientRaises(f) == Len(f) < 2

\* np.gradient, 1-D, unit spacing: one-sided at the edges, central inside
Gradient(f) ==
    LET n == Len(f)
    IN [i \in 1..n |->
            IF i = 1 THEN f[2] - f[1]
            ELSE IF i = n THEN f[n] - f[n - 1]
            ELSE TDiv(f[i + 1] - f[i - 1], 2)]

\* elementwise a (op) b under broadcasting
Times(a, b) == [i \in 1..BLen(a, b) |-> Mul(At(a, i), At(b, i))]

Minus(a, b) == [i \in 1..BLen(a, b) |-> At(a, i) - At(b, i)]

\* coupling[coupling > EPSILON]
SelectPositive(s) == SelectSeq(s, GtEps)

----------------------------------------------------------------------------
(* Outcome of a call: a value, or the exception that left it *)

Ok(v) == [exc |-> "", val |-> v]

Raised(e) == [exc |-> e]

IsOk(r) == r.exc = ""

----------------------------------------------------------------------------
(* ThermalFieldAnalyzer: the metric functions *)

\* |gradient| averaged over the positions of a 1-D field
AvgGradMagnitude(T_field) ==
    LET g == Gradient(T_field)
    IN Mean([i \in 1..Len(g) |-> Abs(g[i])])

thermal_curvature(T_field, T_baseline) ==
    IF GradientRaises(T_field) THEN Raised("ValueError")
    ELSE Ok(Arctan(Div(AvgGradMagnitude(T_field), T_baseline)))

\* the baseline is the analyzer's (self.baseline_temp), not the state's
thermal_entropy(self_baseline, T_field, load_field) ==
    LET T_abs == [i \in 1..Len(T_field) |-> Abs(T_field[i] - self_baseline)]
        T_sum == SumSeq(T_abs)
        T_norm == [i \in 1..Len(T_abs) |-> DivEps(T_abs[i], T_sum)]
        load_sum == SumSeq(load_field)
        load_norm == [i \in 1..Len(load_field) |-> DivEps(load_field[i], load_sum)]
        coupling0 == Times(T_norm, load_norm)
        c_sum == SumSeq(coupling0)
        coupling == [i \in 1..Len(coupling0) |-> DivEps(coupling0[i], c_sum)]
        coupling_nonzero == SelectPositive(coupling)
    IN IF ~Broadcastable(T_field, load_field) THEN Raised("ValueError")
       ELSE Ok(-SumSeq([i \in 1..Len(coupling_nonzero) |->
                            Mul(coupling_nonzero[i], Ln(coupling_nonzero[i]))]))

\* mutant: the score is returned without the clamp
HomeostasisUnclamped(T_actual, T_target) ==
    LET d == Minus(T_actual, T_target)
        mean_dev == Mean([i \in 1..Len(d) |-> Abs(d[i])])
        std_target == Std(T_target)
    IN IF ~Broadcastable(T_actual, T_target) THEN Raised("ValueError")
       ELSE IF LtEps(std_target) THEN Ok(IF LtEps(mean_dev) THEN SCALE ELSE 0)
       ELSE Ok(SCALE - Div(mean_dev, std_target))

\* mutant: a constant target scores 0.0 whatever the deviation
HomeostasisConstantZero(T_actual, T_target) ==
    LET d == Minus(T_actual, T_target)
        mean_dev == Mean([i \in 1..Len(d) |-> Abs(d[i])])
        std_target == Std(T_target)
        score == SCALE - Div(mean_dev, std_target)
    IN IF ~Broadcastable(T_actual, T_target) THEN Raised("ValueError")
       ELSE IF LtEps(std_target) THEN Ok(0)
       ELSE Ok(Max2(0, IF score < SCALE THEN score ELSE SCALE))

homeostasis_score(T_actual, T_target) ==
    LET d == Minus(T_actual, T_target)
        mean_dev == Mean([i \in 1..Len(d) |-> Abs(d[i])])
        std_target == Std(T_target)
        score == SCALE - Div(mean_dev, std_target)
    IN IF ~Broadcastable(T_actual, T_target) THEN Raised("ValueError")
       ELSE IF LtEps(std_target) THEN Ok(IF LtEps(mean_dev) THEN SCALE ELSE 0)
       ELSE Ok(Max2(0, IF score < SCALE THEN score ELSE SCALE))

gradient_magnitude(T_field) ==
    IF GradientRaises(T_field) THEN Raised("ValueError")
    ELSE Ok(AvgGradMagnitude(T_field))

\* mutant: np.sum of the product where the code takes np.mean
AlignmentBySum(T_field, load_field) ==
    LET T_mean == Mean(T_field)
        T_std == StdEps(T_field)
        T_norm == [i \in 1..Len(T_field) |-> DivEps(T_field[i] - T_mean, T_std)]
        l_mean == Mean(load_field)
        l_std == StdEps(load_field)
        load_norm == [i \in 1..Len(load_field) |-> DivEps(load_field[i] - l_mean, l_std)]
    IN IF ~Broadcastable(T_field, load_field) THEN Raised("ValueError")
       ELSE Ok(SumSeq(Times(T_norm, load_norm)))

alignment_coefficient(T_field, load_field) ==
    LET T_mean == Mean(T_field)
        T_std == StdEps(T_field)
        T_norm == [i \in 1..Len(T_field) |-> DivEps(T_field[i] - T_mean, T_std)]
        l_mean == Mean(load_field)
        l_std == StdEps(load_field)
        load_norm == [i \in 1..Len(load_field) |-> DivEps(load_field[i] - l_mean, l_std)]
    IN IF ~Broadcastable(T_field, load_field) THEN Raised("ValueError")
       ELSE Ok(Mean(Times(T_norm, load_norm)))

\* np.ones_like(state.temperature_field) * state.baseline_temp; <<>> stands for None
DefaultTarget(T_field, target_temp, state_baseline) ==
    IF target_temp = <<>> THEN [i \in 1..Len(T_field) |-> state_baseline]
    ELSE target_temp

\* the ThermalMetrics(...) expression of analyze_state: the five metrics in
\* argument order, the first exception leaving the call
ComputeMetrics(self_baseline, T_field, load_field, state_baseline, target_temp) ==
    LET target == DefaultTarget(T_field, target_temp, state_baseline)
        c == thermal_curvature(T_field, state_baseline)
        e == thermal_entropy(self_baseline, T_field, load_field)
        h == homeostasis_score(T_field, target)
        g == gradient_magnitude(T_field)
        a == alignment_coefficient(T_field, load_field)
    IN IF ~IsOk(c) THEN c
       ELSE IF ~IsOk(e) THEN e
       ELSE IF ~IsOk(h) THEN h
       ELSE IF ~IsOk(g) THEN g
       ELSE IF ~IsOk(a) THEN a
       ELSE Ok([curvature |-> c.val, entropy |-> e.val, homeostasis_score |-> h.val,
                gradient_magnitude |-> g.val, alignment_coefficient |-> a.val])

\* mutant: the guard is on S_after
EntropyReductionGuardAfter(self_baseline, T_before, T_after, load) ==
    LET S_before == thermal_entropy(self_baseline, T_before, load)
        S_after == thermal_entropy(self_baseline, T_after, load)
    IN IF ~IsOk(S_before) THEN S_before
       ELSE IF ~IsOk(S_after) THEN S_after
       ELSE IF LtEps(S_after.val) \/ LtEps(S_before.val) THEN Ok(0)
       ELSE Ok(Div(S_before.val - S_after.val, S_before.val))

\* mutant: the ratio is clamped into [-1, 1]
EntropyReductionClamped(self_baseline, T_before, T_after, load) ==
    LET S_before == thermal_entropy(self_baseline, T_before, load)
        S_after == thermal_entropy(self_baseline, T_after, load)
        r == Div(S_before.val - S_after.val, S_before.val)
    IN IF ~IsOk(S_before) THEN S_before
       ELSE IF ~IsOk(S_after) THEN S_after
       ELSE IF LtEps(S_before.val) THEN Ok(0)
       ELSE Ok(Max2(-SCALE, IF r < SCALE THEN r ELSE SCALE))

entropy_reduction(self_baseline, T_before, T_after, load) ==
    LET S_before == thermal_entropy(self_baseline, T_before, load)
        S_after == thermal_entropy(self_baseline, T_after, load)
    IN IF ~IsOk(S_before) THEN S_before
       ELSE IF ~IsOk(S_after) THEN S_after
       ELSE IF LtEps(S_before.val) THEN Ok(0)
       ELSE Ok(Div(S_before.val - S_after.val, S_before.val))

----------------------------------------------------------------------------
(* CoolingOptimizer *)

T_BASE == (29815 * SCALE) \div 100

TEMP_LOAD_COEFFICIENT == 5 * SCALE

\* mutant: the load is normalised by its sum, not by its peak
TLoadBySum(load) ==
    LET load_sum == SumSeq(load)
    IN [i \in 1..Len(load) |->
            T_BASE + Mul(TEMP_LOAD_COEFFICIENT, DivEps(load[i], load_sum))]

\* T_load = 298.15 + TEMP_LOAD_COEFFICIENT * (load / (np.max(load) + EPSILON))
TLoad(load) ==
    LET load_max == MaxSeq(load)
    IN [i \in 1..Len(load) |->
            T_BASE + Mul(TEMP_LOAD_COEFFICIENT, DivEps(load[i], load_max))]

\* mutant: the three-point stencil on the interior points only
LaplacianInterior(T_current) ==
    [i \in 1..(Len(T_current) - 2) |->
        T_current[i] - 2 * T_current[i + 1] + T_current[i + 2]]

\* np.gradient(np.gradient(T_current)): an array for a 1-D field
Laplacian(T_current) == Gradient(Gradient(T_current))

optimize_temperature(alpha, beta, T_current, load, dt) ==
    LET T_load == TLoad(load)
        laplacian == Laplacian(T_current)
        react == Minus(T_current, T_load)
        dT_dt == [i \in 1..BLen(laplacian, react) |->
                      Mul(alpha, At(laplacian, i)) - Mul(beta, At(react, i))]
    IN IF GradientRaises(T_current) THEN Raised("ValueError")
       ELSE IF ~Broadcastable(T_current, T_load) THEN Raised("ValueError")
       ELSE IF ~Broadcastable(laplacian, react) THEN Raised("ValueError")
       ELSE Ok([i \in 1..BLen(T_current, dT_dt) |->
                    At(T_current, i) + Mul(dt, At(dT_dt, i))])

----------------------------------------------------------------------------
(* Screen feed witnessing layer: the components as functions from the        *)
(* component's fields and the arguments to the fields after the call and     *)
(* the value returned.  Timestamps and the session id (datetime.now()) are   *)
(* left out.  confidence is in hundredths, evolution_delta in units of       *)
(* 10^-5: learning_rate 0.01 * (c / 100) * (o / 10) = c * o * 10^-5.         *)

None == "None"

\* KNOWN_PARADIGMS, in the order of the dict
KNOWN_PARADIGMS ==
    <<[key |-> "drag_and_drop", name |-> "Drag and Drop",
       pattern |-> <<"click", "drag", "drop">>],
      [key |-> "context_menu", name |-> "Context Menu",
       pattern |-> <<"right_click", "click">>],
      [key |-> "keyboard_shortcuts", name |-> "Keyboard Shortcuts",
       pattern |-> <<"key_combo">>],
      [key |-> "hover_preview", name |-> "Hover Preview",
       pattern |-> <<"hover">>],
      [key |-> "scroll_navigation", name |-> "Scroll Navigation",
       pattern |-> <<"scroll">>]>>

ParadigmKeys == {KNOWN_PARADIGMS[k].key : k \in 1..Len(KNOWN_PARADIGMS)}

\* InteractionPattern(pattern_id, pattern_type, ...)
InteractionPattern(id, type) == [pattern_id |-> id, pattern_type |-> type]

\* [p.pattern_type for p in interaction_sequence]
PatternTypes(interaction_sequence) ==
    [k \in 1..Len(interaction_sequence) |-> interaction_sequence[k].pattern_type]

\* _matches_pattern: expected occurs in observed as a contiguous run
MatchesPattern(observed, expected) ==
    /\ Len(observed) >= Len(expected)
    /\ \E i \in 1..(Len(observed) - Len(expected) + 1) :
          SubSeq(observed, i, i + Len(expected) - 1) = expected

\* the entries of KNOWN_PARADIGMS the pattern types match
Matching(pattern_types) ==
    {k \in 1..Len(KNOWN_PARADIGMS) : MatchesPattern(pattern_types, KNOWN_PARADIGMS[k].pattern)}

Min2(a, b) == IF a <= b THEN a ELSE b

\* mutant: the confidence grows without a cap
ConfidenceUncapped(c) == c + 5

\* min(0.99, paradigm.confidence + 0.05)
ConfidenceAfterMatch(c) == Min2(99, c + 5)

\* a dict with key k set to v
Put(d, k, v) == [x \in DOMAIN d \cup {k} |-> IF x = k THEN v ELSE d[x]]

\* UXParadigmExtractor.__init__; the defaultdict reads 0 for a key never counted
ExtractorInit ==
    [learned_paradigms |-> <<>>,
     paradigm_occurrences |-> [k \in ParadigmKeys |-> 0]]

\* extract_paradigm: the extractor after the call and the key of the paradigm
\* returned (the object held in learned_paradigms), or None
extract_paradigm(self, interaction_sequence) ==
    LET pattern_types == PatternTypes(interaction_sequence)
        hits == Matching(pattern_types)
        first == CHOOSE k \in hits : \A j \in hits : k <= j
        def == KNOWN_PARADIGMS[first]
        example == interaction_sequence[1]
        old == self.learned_paradigms[def.key]
        paradigm ==
            IF def.key \notin DOMAIN self.learned_paradigms
            THEN [paradigm_id |-> def.key, paradigm_name |-> def.name,
                  occurrences |-> 1, confidence |-> 70, examples |-> <<example>>]
            ELSE [old EXCEPT !.occurrences = @ + 1,
                             !.confidence = ConfidenceAfterMatch(@),
                             !.examples = IF Len(@) < 10 THEN Append(@, example) ELSE @]
    IN IF interaction_sequence = <<>> \/ hits = {} THEN [self |-> self, out |-> None]
       ELSE [self |-> [learned_paradigms |-> Put(self.learned_paradigms, def.key, paradigm),
                       paradigm_occurrences |->
                           [self.paradigm_occurrences EXCEPT ![def.key] = @ + 1]],
             out |-> def.key]

\* OSEvolutionController.__init__
ControllerInit ==
    [adaptations |-> <<>>,
     evolution_state |-> [total_adaptations |-> 0, evolution_delta |-> 0,
                          active_adaptations |-> <<>>],
     adaptation_history |-> <<>>]

\* _calculate_delta: min(learning_rate * confidence * (occurrences / 10.0), 0.1)
CalculateDelta(paradigm) == Min2(paradigm.confidence * paradigm.occurrences, 10 ^ 4)

\* mutant: the adaptation recorded as applied at once
ProposeAsApplied(self, paradigm) ==
    LET adaptation == [adaptation_id |-> Len(self.adaptations),
                       paradigm |-> paradigm.paradigm_name,
                       confidence |-> paradigm.confidence,
                       evolution_delta |-> CalculateDelta(paradigm),
                       status |-> "applied"]
    IN [self |-> [self EXCEPT !.adaptations = Append(@, adaptation)],
        out |-> Len(self.adaptations) + 1]

\* propose_adaptation: the controller after the call and the index in adaptations
\* of the dict returned; the id "adapt_<n>" is the number n
propose_adaptation(self, paradigm) ==
    LET adaptation == [adaptation_id |-> Len(self.adaptations),
                       paradigm |-> paradigm.paradigm_name,
                       confidence |-> paradigm.confidence,
                       evolution_delta |-> CalculateDelta(paradigm),
                       status |-> "proposed"]
    IN [self |-> [self EXCEPT !.adaptations = Append(@, adaptation)],
        out |-> Len(self.adaptations) + 1]

\* mutant: apply_adaptation without the check of the status
ApplicableAnyStatus(adaptation) == TRUE

\* adaptation['status'] != 'proposed' returns False
Applicable(adaptation) == adaptation.status = "proposed"

\* apply_adaptation: the controller after the call and the bool returned
apply_adaptation(self, adaptation_id) ==
    LET found == {k \in 1..Len(self.adaptations) :
                      self.adaptations[k].adaptation_id = adaptation_id}
        k == CHOOSE x \in found : \A y \in found : x <= y
        adaptation == self.adaptations[k]
    IN IF found = {} THEN [self |-> self, out |-> FALSE]
       ELSE IF ~Applicable(adaptation) THEN [self |-> self, out |-> FALSE]
       ELSE [self |->
                [adaptations |-> [self.adaptations EXCEPT ![k].status = "applied"],
                 evolution_state |->
                    [total_adaptations |-> self.evolution_state.total_adaptations + 1,
                     evolution_delta |-> self.evolution_state.evolution_delta
                                             + adaptation.evolution_delta,
                     active_adaptations |->
                         Append(self.evolution_state.active_adaptations, adaptation_id)],
                 adaptation_history |->
                    Append(self.adaptation_history,
                           [adaptation_id |-> adaptation_id,
                            delta |-> adaptation.evolution_delta])],
             out |-> TRUE]

\* get_adaptation_summary
get_adaptation_summary(self) ==
    LET with(st) == Cardinality({k \in 1..Len(self.adaptations) :
                                     self.adaptations[k].status = st})
    IN [total |-> Len(self.adaptations), proposed |-> with("proposed"),
        applied |-> with("applied"),
        cumulative_delta |-> self.evolution_state.evolution_delta]

\* ScreenCapture.capture_screen: the capture "cap_<n>" is the number n
capture_screen(self) ==
    [self |-> [capture_count |-> self.capture_count + 1,
               capture_history |-> Append(self.capture_history, self.capture_count)],
     out |-> self.capture_count]

\* UIElementRecognizer.recognize_elements: no element is ever recognised, the
\* (empty) result is cached by capture id
recognize_elements(self, capture_id) ==
    IF capture_id \in self.element_cache THEN [self |-> self, out |-> <<>>]
    ELSE [self |-> [recognition_count |-> self.recognition_count + 1,
                    element_cache |-> self.element_cache \cup {capture_id},
                    recognized_elements |-> self.recognized_elements],
          out |-> <<>>]

\* InteractionPatternDetector.detect_interaction: the pattern "int_<n>" is the number n
detect_interaction(self, event_type) ==
    LET pattern == InteractionPattern(Len(self.detected_patterns), event_type)
    IN [self |-> [detected_patterns |-> Append(self.detected_patterns, pattern),
                  pattern_counts |-> Put(self.pattern_counts, event_type,
                                         IF event_type \in DOMAIN self.pattern_counts
                                         THEN self.pattern_counts[event_type] + 1 ELSE 1)],
        out |-> pattern]

\* mutant: a window of the last three detected patterns
LastThree(s) == IF Len(s) <= 3 THEN s ELSE SubSeq(s, Len(s) - 2, Len(s))

\* detected_patterns[-5:]
LastFive(s) == IF Len(s) <= 5 THEN s ELSE SubSeq(s, Len(s) - 4, Len(s))

\* ScreenFeedWitnessingLayer.__init__
LayerInit ==
    [screen_capture |-> [capture_count |-> 0, capture_history |-> <<>>],
     ui_recognizer |-> [recognition_count |-> 0, element_cache |-> {},
                        recognized_elements |-> <<>>],
     pattern_detector |-> [detected_patterns |-> <<>>, pattern_counts |-> <<>>],
     paradigm_extractor |-> ExtractorInit,
     evolution_controller |-> ControllerInit,
     witnessing_log |-> <<>>,
     privacy_consent |-> FALSE]

Denied == [status |-> "denied"]

\* mutant: the pipeline runs whatever the consent
ConsentAssumed(self) == TRUE

\* if not self.privacy_consent: return the denial
ConsentGiven(self) == self.privacy_consent

BaseStages == {"screen_capture", "ui_recognition", "pattern_detection"}

\* mutant: the proposal made but not recorded in the result
StageNamesWithoutProposal(found) ==
    BaseStages \cup (IF found THEN {"paradigm_extraction"} ELSE {})

\* the keys result['stages'] is given: three unconditionally, two more inside
\* `if paradigm:`
StageNames(found) ==
    BaseStages \cup (IF found THEN {"paradigm_extraction", "evolution_proposal"} ELSE {})

\* witness_interaction: the layer after the call and the result returned; a
\* stage of the result holds the id of what the stage produced, the paradigm
\* stage the paradigm's to_dict() copy, the proposal stage the index of the
\* adaptation dict in the controller's list (the dict itself, not a copy)
witness_interaction(self, event_type) ==
    LET cap == capture_screen(self.screen_capture)
        rec == recognize_elements(self.ui_recognizer, cap.out)
        det == detect_interaction(self.pattern_detector, event_type)
        recent_patterns == LastFive(det.self.detected_patterns)
        ext == extract_paradigm(self.paradigm_extractor, recent_patterns)
        paradigm == ext.self.learned_paradigms[ext.out]
        pro == propose_adaptation(self.evolution_controller, paradigm)
        stages == [n \in StageNames(ext.out # None) |->
                      IF n = "screen_capture" THEN cap.out
                      ELSE IF n = "ui_recognition" THEN Len(rec.out)
                      ELSE IF n = "pattern_detection" THEN det.out.pattern_id
                      ELSE IF n = "paradigm_extraction"
                      THEN [paradigm_id |-> paradigm.paradigm_id,
                            occurrences |-> paradigm.occurrences,
                            confidence |-> paradigm.confidence]
                      ELSE pro.out]
        result == [stages |-> stages]
    IN IF ~ConsentGiven(self) THEN [self |-> self, out |-> Denied]
       ELSE [self |-> [screen_capture |-> cap.self,
                       ui_recognizer |-> rec.self,
                       pattern_detector |-> det.self,
                       paradigm_extractor |-> ext.self,
                       evolution_controller |->
                           IF ext.out = None THEN self.evolution_controller ELSE pro.self,
                       witnessing_log |-> Append(self.witnessing_log, result),
                       privacy_consent |-> self.privacy_consent],
             out |-> result]

\* the layer constructed and not yet used
ScreenIdle ==
    /\ layer = LayerInit
    /\ layerRet = [op |-> "none"]

----------------------------------------------------------------------------
(* Voice integration layer: the components as functions from the            *)
(* component's fields and the arguments to the fields after the call and    *)
(* the value returned.  Timestamps and the session id are left out.  A text *)
(* is the sequence of its words, '' the empty sequence; audio data is a     *)
(* sequence of bytes.  confidence is in hundredths, the profile values in   *)
(* thousandths, evolution_delta in units of 10^-5.  The processor's buffer  *)
(* is a reference into the list objects of the heap, so that a list handed  *)
(* out and the list kept are told apart.                                    *)

\* VoiceInputProcessor.__init__: the buffer is the first list object
ProcessorInit == [buffer |-> 1, processed_count |-> 0]

\* process_audio_input
process_audio_input(self, audio_data) ==
    [self |-> [self EXCEPT !.processed_count = @ + 1],
     out |-> [size |-> Len(audio_data), status |-> "processed", format |-> "raw"]]

\* buffer_input: self.buffer.append({'data': audio_chunk, ...})
buffer_input(self, heap, audio_chunk) ==
    [self |-> self,
     heap |-> [heap EXCEPT ![self.buffer] = Append(@, [data |-> audio_chunk])]]

\* mutant: the buffer itself is handed out and kept
FlushWithoutCopy(self, heap) ==
    [self |-> self, heap |-> heap, out |-> self.buffer]

\* flush_buffer: chunks = self.buffer.copy() is a new list, self.buffer = []
\* another one; the reference to the copy is returned
flush_buffer(self, heap) ==
    [self |-> [self EXCEPT !.buffer = Len(heap) + 2],
     heap |-> heap \o <<heap[self.buffer], <<>>>>,
     out |-> Len(heap) + 1]

\* SpeechToText.__init__
SttInit == [recognition_history |-> <<>>, vocabulary |-> {}]

\* mutant: a recogniser that hears a command
RecognizeCommand(self, audio_data, language) ==
    LET result == [text |-> <<"open", "calendar">>, confidence |-> 90,
                   language |-> language, alternatives |-> <<>>, status |-> "ready"]
    IN [self |-> [self EXCEPT !.recognition_history =
                     Append(@, [language |-> language, success |-> result.confidence > 50])],
        out |-> result]

\* recognize: the result is built with text '' and confidence 0.0 and returned
\* as built
recognize(self, audio_data, language) ==
    LET result == [text |-> <<>>, confidence |-> 0, language |-> language,
                   alternatives |-> <<>>, status |-> "ready"]
    IN [self |-> [self EXCEPT !.recognition_history =
                     Append(@, [language |-> language, success |-> result.confidence > 50])],
        out |-> result]

\* the profile values of the constructor: pitch, rate and volume 1.0
DefaultProfile == [pitch |-> SCALE, rate |-> SCALE, volume |-> SCALE]

\* TextToSpeech.__init__
TtsInit ==
    [synthesis_queue |-> <<>>,
     voice_profiles |-> [n \in {"default"} |-> DefaultProfile],
     current_voice |-> "default"]

\* max(lo, min(hi, x))
Clamp(lo, hi, x) == Max2(lo, Min2(hi, x))

\* add_voice_profile: the entry is set, a profile of that name replaced
add_voice_profile(self, name, pitch, rate, volume) ==
    [self EXCEPT !.voice_profiles =
        Put(@, name, [pitch |-> Clamp(SCALE \div 10, 2 * SCALE, pitch),
                      rate |-> Clamp(SCALE \div 10, 10 * SCALE, rate),
                      volume |-> Clamp(0, SCALE, volume)])]

\* mutant: the voice is set whatever the profiles
SetVoiceUnchecked(self, voice) ==
    [self |-> [self EXCEPT !.current_voice = voice], out |-> TRUE]

\* set_voice: the text-to-speech after the call and the bool returned
set_voice(self, voice) ==
    IF voice \in DOMAIN self.voice_profiles
    THEN [self |-> [self EXCEPT !.current_voice = voice], out |-> TRUE]
    ELSE [self |-> self, out |-> FALSE]

\* COMMAND_PATTERNS, in the order of the list: the alternatives of the first
\* group as word sequences, and what the pattern wants after it: "some" for
\* \s+(.+), "any" for \s*(.*), "none" for the end of the text
COMMAND_PATTERNS ==
    <<[verbs |-> {<<"open">>, <<"launch">>, <<"start">>}, rest |-> "some", type |-> "app_launch"],
      [verbs |-> {<<"close">>, <<"quit">>, <<"exit">>}, rest |-> "some", type |-> "app_close"],
      [verbs |-> {<<"search">>, <<"find">>, <<"look", "for">>}, rest |-> "some", type |-> "search"],
      [verbs |-> {<<"go", "to">>, <<"navigate", "to">>, <<"show">>}, rest |-> "some",
       type |-> "navigate"],
      [verbs |-> {<<"create">>, <<"new">>, <<"make">>}, rest |-> "some", type |-> "create"],
      [verbs |-> {<<"delete">>, <<"remove">>}, rest |-> "some", type |-> "delete"],
      [verbs |-> {<<"save">>, <<"store">>}, rest |-> "some", type |-> "save"],
      [verbs |-> {<<"help">>, <<"assist">>, <<"what", "is">>}, rest |-> "any", type |-> "help"],
      [verbs |-> {<<"cancel">>, <<"stop">>, <<"abort">>}, rest |-> "none", type |-> "cancel"],
      [verbs |-> {<<"undo">>, <<"reverse">>}, rest |-> "none", type |-> "undo"],
      [verbs |-> {<<"redo">>, <<"repeat">>}, rest |-> "none", type |-> "redo"]>>

\* the pattern types analyze_text counts
VoicePatternTypes ==
    {COMMAND_PATTERNS[k].type : k \in 1..Len(COMMAND_PATTERNS)} \cup {"query", "statement"}

\* str.lower() on the words the driver uses
LowerWord(w) ==
    IF w = "Open" THEN "open" ELSE IF w = "Save" THEN "save" ELSE IF w = "What" THEN "what"
    ELSE w

\* text.lower().strip(): the words are kept, blanks around the text are not
\* part of the word sequence
Lower(text) == [k \in 1..Len(text) |-> LowerWord(text[k])]

\* the alternatives of the pattern's first group the text starts with in a way
\* that lets the whole pattern match
VerbsMatching(text_lower, p) ==
    {v \in p.verbs :
        /\ Len(text_lower) >= Len(v)
        /\ SubSeq(text_lower, 1, Len(v)) = v
        /\ p.rest = "some" => Len(text_lower) > Len(v)
        /\ p.rest = "none" => Len(text_lower) = Len(v)}

\* re.match(pattern, text_lower) and the dict appended for it: groups[0] is
\* the verb, groups[1] the words after it, '' when the pattern has one group
CommandMatch(text, p) ==
    LET v == CHOOSE v \in VerbsMatching(Lower(text), p) : TRUE
    IN [type |-> p.type, action |-> v,
        target |-> IF p.rest = "none" THEN <<>>
                   ELSE SubSeq(Lower(text), Len(v) + 1, Len(text)),
        confidence |-> 90, raw_text |-> text]

\* the matches of patterns k..Len(COMMAND_PATTERNS), in the order of the list
RECURSIVE CommandMatches(_, _)
CommandMatches(text, k) ==
    IF k > Len(COMMAND_PATTERNS) THEN <<>>
    ELSE (IF VerbsMatching(Lower(text), COMMAND_PATTERNS[k]) # {}
          THEN <<CommandMatch(text, COMMAND_PATTERNS[k])>> ELSE <<>>)
         \o CommandMatches(text, k + 1)

\* text_lower.endswith('?'): the last word is one that ends with a question mark
EndsWithQuestionMark(text_lower) ==
    /\ text_lower # <<>>
    /\ text_lower[Len(text_lower)] \in {"weather?", "ready?"}

\* AudioPatternRecognizer.__init__; the defaultdict reads 0 for a type never counted
RecognizerInit ==
    [patterns |-> <<>>, pattern_history |-> <<>>,
     pattern_counts |-> [t \in VoicePatternTypes |-> 0]]

\* the counts after one more of each type detected
RECURSIVE CountAll(_, _)
CountAll(counts, detected) ==
    IF detected = <<>> THEN counts
    ELSE CountAll([counts EXCEPT ![detected[1].type] = @ + 1], Tail(detected))

\* analyze_text: the recogniser after the call and the list detected
analyze_text(self, text) ==
    LET commands == CommandMatches(text, 1)
        detected ==
            IF commands # <<>> THEN commands
            ELSE IF EndsWithQuestionMark(Lower(text))
            THEN <<[type |-> "query", content |-> text, confidence |-> 80, raw_text |-> text]>>
            ELSE <<[type |-> "statement", content |-> text, confidence |-> 70,
                    raw_text |-> text]>>
    IN [self |-> [self EXCEPT !.pattern_counts = CountAll(@, detected),
                              !.pattern_history = @ \o detected],
        out |-> detected]

\* VoiceCommandInterpreter.__init__: no handler is registered
InterpreterInit == [command_handlers |-> <<>>, interpretation_history |-> <<>>]

\* dict.get(key, default)
Get(d, key, default) == IF key \in DOMAIN d THEN d[key] ELSE default

\* interpret: the interpreter after the call and the interpretation returned; a
\* registered handler is the dict it returns, or one that raises
interpret(self, pattern) ==
    LET pattern_type == Get(pattern, "type", "")
        handler == self.command_handlers[pattern_type]
        interpretation ==
            IF pattern_type \in DOMAIN self.command_handlers
            THEN IF handler.raises
                 THEN [pattern |-> pattern, status |-> "error", action |-> None,
                       parameters |-> <<>>]
                 ELSE [pattern |-> pattern, status |-> "executed", action |-> handler.action,
                       parameters |-> handler.parameters]
            ELSE [pattern |-> pattern, status |-> "interpreted", action |-> pattern_type,
                  parameters |-> [target |-> Get(pattern, "target",
                                                 Get(pattern, "content", <<>>)),
                                  action |-> Get(pattern, "action", <<>>)]]
    IN [self |-> [self EXCEPT !.interpretation_history = Append(@, interpretation)],
        out |-> interpretation]

\* FeedbackCouplingEngine.__init__; learning_rate is 0.01 throughout
EngineInit ==
    [couplings |-> <<>>, adaptation_history |-> <<>>,
     evolution_state |-> [total_adaptations |-> 0, evolution_delta |-> 0]]

\* _calculate_evolution_delta: learning_rate * confidence * multiplier, the
\* multiplier in tenths
CalculateEvolutionDelta(pattern, adaptation_type) ==
    (pattern.confidence * (IF adaptation_type = "correction" THEN 15
                           ELSE IF adaptation_type = "confirmation" THEN 5
                           ELSE 10))

\* create_coupling with _apply_adaptation: the engine after the call and the
\* coupling returned; the id "fc_<time>_<n>" is the number n
create_coupling(self, input_pattern, system_response, adaptation_type) ==
    LET coupling == [coupling_id |-> Len(self.couplings), input_pattern |-> input_pattern,
                     system_response |-> system_response,
                     adaptation_type |-> adaptation_type,
                     evolution_delta |->
                         CalculateEvolutionDelta(input_pattern, adaptation_type)]
        cumulative == self.evolution_state.evolution_delta + coupling.evolution_delta
    IN [self |->
            [couplings |-> Append(self.couplings, coupling),
             adaptation_history |->
                 Append(self.adaptation_history,
                        [coupling_id |-> coupling.coupling_id,
                         delta |-> coupling.evolution_delta,
                         cumulative_delta |-> cumulative]),
             evolution_state |->
                 [total_adaptations |-> self.evolution_state.total_adaptations + 1,
                  evolution_delta |-> cumulative]],
        out |-> coupling]

\* VoiceIntegrationLayer.__init__
VoiceLayerInit ==
    [input_processor |-> ProcessorInit,
     speech_to_text |-> SttInit,
     text_to_speech |-> TtsInit,
     pattern_recognizer |-> RecognizerInit,
     command_interpreter |-> InterpreterInit,
     feedback_engine |-> EngineInit,
     interaction_log |-> <<>>]

\* the stages a result holds: two always, the third when text was recognised,
\* the last two when a pattern was detected in it
VoiceStageNames(text, patterns) ==
    {"audio_processing", "speech_to_text"}
        \cup (IF text # <<>> THEN {"pattern_recognition"} ELSE {})
        \cup (IF text # <<>> /\ patterns # <<>>
              THEN {"command_interpretation", "feedback_coupling"} ELSE {})

\* process_voice_input: the layer after the call and the result returned
process_voice_input(self, audio_data, language) ==
    LET aud == process_audio_input(self.input_processor, audio_data)
        stt == recognize(self.speech_to_text, audio_data, language)
        text == stt.out.text
        ana == analyze_text(self.pattern_recognizer, text)
        patterns == ana.out
        itp == interpret(self.command_interpreter, patterns[1])
        voice_pattern == [pattern_id |-> Len(self.interaction_log),
                          pattern_type |-> Get(patterns[1], "type", "unknown"),
                          content |-> text,
                          confidence |-> Get(patterns[1], "confidence", 0)]
        cou == create_coupling(self.feedback_engine, voice_pattern,
                               Get(itp.out, "status", "processed"), "learning")
        stages == [n \in VoiceStageNames(text, IF text # <<>> THEN patterns ELSE <<>>) |->
                      IF n = "audio_processing" THEN aud.out
                      ELSE IF n = "speech_to_text" THEN stt.out
                      ELSE IF n = "pattern_recognition" THEN patterns
                      ELSE IF n = "command_interpretation" THEN itp.out
                      ELSE cou.out]
        result == [stages |-> stages]
        reached3 == text # <<>>
        reached4 == reached3 /\ patterns # <<>>
    IN [self |-> [input_processor |-> aud.self,
                  speech_to_text |-> stt.self,
                  text_to_speech |-> self.text_to_speech,
                  pattern_recognizer |->
                      IF reached3 THEN ana.self ELSE self.pattern_recognizer,
                  command_interpreter |->
                      IF reached4 THEN itp.self ELSE self.command_interpreter,
                  feedback_engine |->
                      IF reached4 THEN cou.self ELSE self.feedback_engine,
                  interaction_log |-> Append(self.interaction_log, result)],
        out |-> result]

\* the layer constructed and not yet used, its one list object the empty buffer
VoiceIdle ==
    /\ voiceLayer = VoiceLayerInit
    /\ voiceRet = [op |-> "none"]
    /\ lists = <<<<>>>>
    /\ flushed = [returned |-> <<>>, pending |-> <<>>]

----------------------------------------------------------------------------
(* The driver's values *)

Analyzers == {1, 2}

\* the callers that share analyzer 1
Callers == {1, 2}

\* no caller has called yet
CallersIdle == callers = [c \in Callers |-> [at |-> 0, returned |-> <<>>]]

\* ThermalFieldAnalyzer(baseline_temp = ...): the default and one other
BaselineVals == {T_BASE, 299 * SCALE}

TempVals == {299 * SCALE, 310 * SCALE}

LoadVals == {0, SCALE}

DtVals == {SCALE \div 2, SCALE}

\* CoolingOptimizer(): the default coefficients
DefaultOptimizer == [alpha |-> SCALE \div 10, beta |-> SCALE \div 2]

\* the defaults and the coefficients of the iterative test
OptimizerVals == {DefaultOptimizer, [alpha |-> SCALE \div 5, beta |-> (4 * SCALE) \div 5]}

Fields(vals) == UNION {[1..n -> vals] : n \in 1..MaxLen}

Buffer(kind, data) == [kind |-> kind, data |-> data]

TempBuffers == {k \in 1..Len(arrays) : arrays[k].kind = "T"}

LoadBuffers == {k \in 1..Len(arrays) : arrays[k].kind = "load"}

\* the values a ThermalState's fields hold now
FieldsOf(s) ==
    [temperature_field |-> arrays[objs[s].temperature_field].data,
     computational_load |-> arrays[objs[s].computational_load].data]

RECURSIVE TotalLen(_, _)
TotalLen(h, S) ==
    IF S = {} THEN 0
    ELSE LET a == CHOOSE x \in S : TRUE IN Len(h[a]) + TotalLen(h, S \ {a})

NoCall == [op |-> "none"]

\* the buffer of length n that alternates between hi and lo
Alternating(n, hi, lo) == [i \in 1..n |-> IF i % 2 = 1 THEN hi ELSE lo]

\* ThermalState(timestamp, temperature_field, computational_load): the fields are
\* references to the caller's buffers, baseline_temp its default
ThermalState(n, t, l) ==
    [timestamp |-> n, temperature_field |-> t, computational_load |-> l,
     baseline_temp |-> T_BASE]

\* the driver of the summary test: one analyzer, a before and an after state, each
\* over a temperature and a load buffer of its own length
Init ==
    /\ \E n \in 1..MaxLen, m \in 1..MaxLen :
           arrays = <<Buffer("T", Alternating(n, 310 * SCALE, 299 * SCALE)),
                      Buffer("load", Alternating(n, SCALE, 0)),
                      Buffer("T", Alternating(m, 299 * SCALE, 310 * SCALE)),
                      Buffer("load", Alternating(m, 0, SCALE))>>
    /\ objs = <<ThermalState(1, 1, 2), ThermalState(2, 3, 4)>>
    /\ baseline = [a \in Analyzers |-> T_BASE]
    /\ history = [a \in Analyzers |-> <<>>]
    /\ optimizer = DefaultOptimizer
    /\ ret = [a \in Analyzers |-> NoCall]
    /\ optCalls = <<>>
    /\ appended = [a \in Analyzers |-> <<>>]
    /\ writes = 0
    /\ CallersIdle
    /\ ScreenIdle
    /\ VoiceIdle

\* every temperature and load buffer up to MaxLen in one state, two analyzers
InitFn ==
    /\ \E T0 \in Fields(TempVals), L0 \in Fields(LoadVals) :
           arrays = <<Buffer("T", T0), Buffer("load", L0)>>
    /\ objs = <<ThermalState(1, 1, 2)>>
    /\ \E b \in BaselineVals : baseline = [a \in Analyzers |-> IF a = 1 THEN T_BASE ELSE b]
    /\ history = [a \in Analyzers |-> <<>>]
    /\ optimizer = DefaultOptimizer
    /\ ret = [a \in Analyzers |-> NoCall]
    /\ optCalls = <<>>
    /\ appended = [a \in Analyzers |-> <<>>]
    /\ writes = 0
    /\ CallersIdle
    /\ ScreenIdle
    /\ VoiceIdle

\* every temperature and load buffer up to MaxLen in one state, an optimizer
InitOpt ==
    /\ \E T0 \in Fields(TempVals), L0 \in Fields(LoadVals) :
           arrays = <<Buffer("T", T0), Buffer("load", L0)>>
    /\ objs = <<ThermalState(1, 1, 2)>>
    /\ baseline = [a \in Analyzers |-> T_BASE]
    /\ history = [a \in Analyzers |-> <<>>]
    /\ optimizer \in OptimizerVals
    /\ ret = [a \in Analyzers |-> NoCall]
    /\ optCalls = <<>>
    /\ appended = [a \in Analyzers |-> <<>>]
    /\ writes = 0
    /\ CallersIdle
    /\ ScreenIdle
    /\ VoiceIdle

\* loads of mixed sign: no range is enforced on computational_load
SignedLoadVals == {-SCALE, 0, 5 * SCALE}

\* the metric functions called on their own, as the unit tests call them: two
\* temperature buffers and a load buffer of one length, every value combination
InitMetric ==
    /\ \E n \in 1..MaxLen :
          \E A \in [1..n -> TempVals], B \in [1..n -> TempVals], L \in [1..n -> SignedLoadVals] :
              arrays = <<Buffer("T", A), Buffer("T", B), Buffer("load", L)>>
    /\ objs = <<>>
    /\ \E b \in BaselineVals : baseline = [a \in Analyzers |-> b]
    /\ history = [a \in Analyzers |-> <<>>]
    /\ optimizer = DefaultOptimizer
    /\ ret = [a \in Analyzers |-> NoCall]
    /\ optCalls = <<>>
    /\ appended = [a \in Analyzers |-> <<>>]
    /\ writes = 0
    /\ CallersIdle
    /\ ScreenIdle
    /\ VoiceIdle

----------------------------------------------------------------------------
(* The driver *)

\* the caller writes one element of one of its buffers in place
WriteBuffer(k, i, v) ==
    /\ writes < MaxWrites
    /\ arrays[k].data[i] # v
    /\ arrays' = [arrays EXCEPT ![k].data[i] = v]
    /\ writes' = writes + 1
    /\ UNCHANGED <<objs, baseline, history, optimizer, ret, optCalls, appended, screenVars, callerVars, voiceVars>>

----------------------------------------------------------------------------
(* ThermalFieldAnalyzer.analyze_state, optimization_summary *)

MetricsOf(a, s) ==
    ComputeMetrics(baseline[a], FieldsOf(s).temperature_field,
                   FieldsOf(s).computational_load, objs[s].baseline_temp, <<>>)

\* mutant: self.history.insert(0, state)
HistoryPrepend(h, s) == <<s>> \o h

\* mutant: an append that overwrites the entry appended last
HistoryOverwriteLast(h, s) == IF h = <<>> THEN <<s>> ELSE [h EXCEPT ![Len(h)] = s]

\* self.history.append(state): the list holds the reference it is given
HistoryAppend(h, s) == Append(h, s)

\* what the call-time record of an appended state holds
Snapshot(s) == [state |-> s, fields |-> FieldsOf(s)]

\* mutant: thermal_entropy normalises in place (T_field -= self.baseline_temp)
BuffersNormalizedInPlace(a, s) ==
    [arrays EXCEPT ![objs[s].temperature_field].data =
        [i \in 1..Len(@) |-> Abs(@[i] - baseline[a])]]

\* the metric functions build new arrays (T_field - ..., T_norm / ..., np.abs):
\* the buffers of the analysed state are read, never written
BuffersAfterAnalyze(a, s) == arrays

\* mutant: analyze_state appends copy.deepcopy(state), a new object over new buffers
AnalyzeStateCopying(a, s) ==
    LET m == MetricsOf(a, s)
        n == Len(arrays)
    IN /\ TotalLen(history, Analyzers) < MaxHist
       /\ ret' = [ret EXCEPT ![a] = [op |-> "analyze_state", state |-> s, out |-> m]]
       /\ IF IsOk(m)
          THEN /\ history' = [history EXCEPT ![a] = Append(@, Len(objs) + 1)]
               /\ appended' = [appended EXCEPT ![a] = Append(@, Snapshot(s))]
               /\ objs' = Append(objs, [objs[s] EXCEPT !.temperature_field = n + 1,
                                                       !.computational_load = n + 2])
               /\ arrays' = arrays \o <<arrays[objs[s].temperature_field],
                                         arrays[objs[s].computational_load]>>
          ELSE UNCHANGED <<history, appended, objs, arrays>>
       /\ UNCHANGED <<baseline, optimizer, optCalls, writes, screenVars, voiceVars>>

\* mutant: the state is stored before the metrics are computed
AnalyzeStateAppendFirst(a, s) ==
    LET m == MetricsOf(a, s)
    IN /\ TotalLen(history, Analyzers) < MaxHist
       /\ ret' = [ret EXCEPT ![a] = [op |-> "analyze_state", state |-> s, out |-> m]]
       /\ history' = [history EXCEPT ![a] = HistoryAppend(@, s)]
       /\ IF IsOk(m)
          THEN appended' = [appended EXCEPT ![a] = Append(@, Snapshot(s))]
          ELSE UNCHANGED appended
       /\ arrays' = BuffersAfterAnalyze(a, s)
       /\ UNCHANGED <<objs, baseline, optimizer, optCalls, writes, screenVars, voiceVars>>

\* analyze_state: the metrics are computed first, the append is the last
\* statement before the return
AnalyzeState(a, s) ==
    LET m == MetricsOf(a, s)
    IN /\ TotalLen(history, Analyzers) < MaxHist
       /\ ret' = [ret EXCEPT ![a] = [op |-> "analyze_state", state |-> s, out |-> m]]
       /\ IF IsOk(m)
          THEN /\ history' = [history EXCEPT ![a] = HistoryAppend(@, s)]
               /\ appended' = [appended EXCEPT ![a] = Append(@, Snapshot(s))]
          ELSE UNCHANGED <<history, appended>>
       /\ arrays' = BuffersAfterAnalyze(a, s)
       /\ UNCHANGED <<objs, baseline, optimizer, optCalls, writes, screenVars, voiceVars>>

\* mutant: every delta is after - before
SummaryDeltasAfterMinusBefore(m1, m2, er) ==
    [before |-> m1, after |-> m2,
     improvements |->
        [entropy_reduction |-> er,
         curvature_reduction |-> m2.curvature - m1.curvature,
         homeostasis_improvement |-> m2.homeostasis_score - m1.homeostasis_score,
         gradient_reduction |-> m2.gradient_magnitude - m1.gradient_magnitude,
         alignment_improvement |-> m2.alignment_coefficient - m1.alignment_coefficient]]

Summary(m1, m2, er) ==
    [before |-> m1, after |-> m2,
     improvements |->
        [entropy_reduction |-> er,
         curvature_reduction |-> m1.curvature - m2.curvature,
         homeostasis_improvement |-> m2.homeostasis_score - m1.homeostasis_score,
         gradient_reduction |-> m1.gradient_magnitude - m2.gradient_magnitude,
         alignment_improvement |-> m2.alignment_coefficient - m1.alignment_coefficient]]

\* mutant: entropy_reduction goes through analyze_state and appends once more
SummaryHistoryThree(h, before, after) ==
    HistoryAppend(HistoryAppend(HistoryAppend(h, before), after), after)

\* the history after both analyze_state calls of optimization_summary returned;
\* entropy_reduction calls thermal_entropy only
SummaryHistory(h, before, after) == HistoryAppend(HistoryAppend(h, before), after)

\* mutant: a failing optimization_summary restores the history it found
OptimizationSummaryAllOrNothing(a, before, after) ==
    LET m1 == MetricsOf(a, before)
        m2 == MetricsOf(a, after)
        er == entropy_reduction(baseline[a], FieldsOf(before).temperature_field,
                                FieldsOf(after).temperature_field,
                                FieldsOf(before).computational_load)
        out == IF ~IsOk(m1) THEN m1
               ELSE IF ~IsOk(m2) THEN m2
               ELSE IF ~IsOk(er) THEN er
               ELSE Ok(Summary(m1.val, m2.val, er.val))
    IN /\ TotalLen(history, Analyzers) + 2 <= MaxHist
       /\ ret' = [ret EXCEPT ![a] = [op |-> "optimization_summary", state |-> before,
                                     after |-> after, out |-> out]]
       /\ IF ~IsOk(out) THEN UNCHANGED <<history, appended>>
          ELSE /\ history' = [history EXCEPT ![a] = SummaryHistory(@, before, after)]
               /\ appended' = [appended EXCEPT ![a] =
                                  Append(Append(@, Snapshot(before)), Snapshot(after))]
       /\ arrays' = BuffersAfterAnalyze(a, after)
       /\ UNCHANGED <<objs, baseline, optimizer, optCalls, writes, screenVars, callerVars, voiceVars>>

\* optimization_summary: analyze_state(before), analyze_state(after), then
\* entropy_reduction; an exception leaves what was appended before it
OptimizationSummary(a, before, after) ==
    LET m1 == MetricsOf(a, before)
        m2 == MetricsOf(a, after)
        er == entropy_reduction(baseline[a], FieldsOf(before).temperature_field,
                                FieldsOf(after).temperature_field,
                                FieldsOf(before).computational_load)
        p1 == Append(appended[a], Snapshot(before))
        out == IF ~IsOk(m1) THEN m1
               ELSE IF ~IsOk(m2) THEN m2
               ELSE IF ~IsOk(er) THEN er
               ELSE Ok(Summary(m1.val, m2.val, er.val))
    IN /\ TotalLen(history, Analyzers) + 2 <= MaxHist
       /\ ret' = [ret EXCEPT ![a] = [op |-> "optimization_summary", state |-> before,
                                     after |-> after, out |-> out]]
       /\ IF ~IsOk(m1) THEN UNCHANGED <<history, appended>>
          ELSE IF ~IsOk(m2)
          THEN /\ history' = [history EXCEPT ![a] = HistoryAppend(@, before)]
               /\ appended' = [appended EXCEPT ![a] = p1]
          ELSE /\ history' = [history EXCEPT ![a] = SummaryHistory(@, before, after)]
               /\ appended' = [appended EXCEPT ![a] = Append(p1, Snapshot(after))]
       /\ arrays' = BuffersAfterAnalyze(a, after)
       /\ UNCHANGED <<objs, baseline, optimizer, optCalls, writes, screenVars, callerVars, voiceVars>>

----------------------------------------------------------------------------
(* CoolingOptimizer.optimize_temperature: the result is a new buffer *)

\* what the driver notes of a call: the argument values and the outcome
OptCall(t, l, dt, r) ==
    [T_current |-> arrays[t].data, load |-> arrays[l].data, dt |-> dt,
     alpha |-> optimizer.alpha, beta |-> optimizer.beta, out |-> r]

\* mutant: the step updates its argument in place (T_current += dt * dT_dt)
BuffersUpdatedInPlace(t, l, dt) ==
    LET r == optimize_temperature(optimizer.alpha, optimizer.beta,
                                  arrays[t].data, arrays[l].data, dt)
    IN IF IsOk(r) THEN [arrays EXCEPT ![t].data = r.val] ELSE arrays

\* the arguments and the optimizer's coefficients are read only: T_new is a new
\* array, which the driver inspects and drops
BuffersAfterOptimize(t, l, dt) == arrays

OptimizeTemperature(t, l, dt) ==
    LET r == optimize_temperature(optimizer.alpha, optimizer.beta,
                                  arrays[t].data, arrays[l].data, dt)
    IN /\ Len(optCalls) < MaxCalls
       /\ optCalls' = Append(optCalls, OptCall(t, l, dt, r))
       /\ arrays' = BuffersAfterOptimize(t, l, dt)
       /\ UNCHANGED <<objs, baseline, history, optimizer, ret, appended, writes, screenVars, callerVars, voiceVars>>

----------------------------------------------------------------------------
(* The metric functions called directly: they read their arguments and the   *)
(* analyzer's baseline and touch neither the buffers nor the history         *)

HomeostasisScore(a, t, g) ==
    /\ ret' = [ret EXCEPT ![a] =
                  [op |-> "homeostasis_score", T_actual |-> arrays[t].data,
                   T_target |-> arrays[g].data,
                   out |-> homeostasis_score(arrays[t].data, arrays[g].data)]]
    /\ UNCHANGED <<arrays, objs, baseline, history, optimizer, optCalls, appended, writes,
                   screenVars, callerVars, voiceVars>>

ThermalEntropy(a, t, l) ==
    /\ ret' = [ret EXCEPT ![a] =
                  [op |-> "thermal_entropy", T_field |-> arrays[t].data,
                   load_field |-> arrays[l].data,
                   out |-> thermal_entropy(baseline[a], arrays[t].data, arrays[l].data)]]
    /\ UNCHANGED <<arrays, objs, baseline, history, optimizer, optCalls, appended, writes,
                   screenVars, callerVars, voiceVars>>

EntropyReduction(a, t1, t2, l) ==
    /\ ret' = [ret EXCEPT ![a] =
                  [op |-> "entropy_reduction", T_before |-> arrays[t1].data,
                   T_after |-> arrays[t2].data, load |-> arrays[l].data,
                   out |-> entropy_reduction(baseline[a], arrays[t1].data,
                                             arrays[t2].data, arrays[l].data)]]
    /\ UNCHANGED <<arrays, objs, baseline, history, optimizer, optCalls, appended, writes,
                   screenVars, callerVars, voiceVars>>

----------------------------------------------------------------------------

\* the summary test's driver: one analyzer, the two states, in-place writes to a
\* buffer's first element
Next ==
    \/ \E k \in TempBuffers, v \in TempVals : WriteBuffer(k, 1, v)
    \/ \E k \in LoadBuffers, v \in LoadVals : WriteBuffer(k, 1, v)
    \/ \E s \in 1..Len(objs) : AnalyzeState(1, s) /\ UNCHANGED callers
    \/ \E s1 \in 1..Len(objs), s2 \in 1..Len(objs) : OptimizationSummary(1, s1, s2)

Spec == Init /\ [][Next]_vars

\* each analyzer analyses the one state once
NextFn == \E a \in Analyzers : ret[a] = NoCall /\ AnalyzeState(a, 1) /\ UNCHANGED callers

SpecFn == InitFn /\ [][NextFn]_vars

\* the optimizer steps the state's field, the analyzer analyses the state once
NextOpt ==
    \/ \E dt \in DtVals : OptimizeTemperature(1, 2, dt)
    \/ ret[1] = NoCall /\ AnalyzeState(1, 1) /\ UNCHANGED callers

SpecOpt == InitOpt /\ [][NextOpt]_vars

\* one call of a metric function on the buffers: homeostasis_score against the
\* field itself and against the other field, thermal_entropy, entropy_reduction
NextMetric ==
    \/ \E g \in {1, 2} : ret[1] = NoCall /\ HomeostasisScore(1, 1, g)
    \/ ret[1] = NoCall /\ ThermalEntropy(1, 1, 3)
    \/ ret[1] = NoCall /\ EntropyReduction(1, 1, 2, 3)

SpecMetric == InitMetric /\ [][NextMetric]_vars

\* the states each caller analyses, in its call order: caller 1 the before and
\* the after of an optimization_summary, caller 2 a state of its own
Program(c) == IF c = 1 THEN <<1, 2>> ELSE <<3>>

\* three states over one temperature and one load buffer, one analyzer
InitShared ==
    /\ \E T0 \in Fields(TempVals), L0 \in Fields(LoadVals) :
           /\ Len(T0) = Len(L0)
           /\ arrays = <<Buffer("T", T0), Buffer("load", L0)>>
    /\ objs = <<ThermalState(1, 1, 2), ThermalState(2, 1, 2), ThermalState(3, 1, 2)>>
    /\ baseline = [a \in Analyzers |-> T_BASE]
    /\ history = [a \in Analyzers |-> <<>>]
    /\ optimizer = DefaultOptimizer
    /\ ret = [a \in Analyzers |-> NoCall]
    /\ optCalls = <<>>
    /\ appended = [a \in Analyzers |-> <<>>]
    /\ writes = 0
    /\ CallersIdle
    /\ ScreenIdle
    /\ VoiceIdle

\* caller c makes its next analyze_state call on analyzer 1, the call taken as
\* one step; an exception ends caller 1's optimization_summary
CallerAnalyze(c) ==
    LET s == Program(c)[callers[c].at + 1]
        ok == IsOk(MetricsOf(1, s))
    IN /\ callers[c].at < Len(Program(c))
       /\ AnalyzeState(1, s)
       /\ callers' = [callers EXCEPT
                         ![c].at = IF ok THEN @ + 1 ELSE Len(Program(c)) + 1,
                         ![c].returned = IF ok THEN Append(@, s) ELSE @]

\* caller 1's optimization_summary after its two analyze_state calls returned:
\* entropy_reduction and the summary dict
SummaryReturn ==
    LET before == Program(1)[1]
        after == Program(1)[2]
        er == entropy_reduction(baseline[1], FieldsOf(before).temperature_field,
                                FieldsOf(after).temperature_field,
                                FieldsOf(before).computational_load)
    IN /\ callers[1].at = Len(Program(1))
       /\ ret' = [ret EXCEPT ![1] =
                     [op |-> "optimization_summary", state |-> before, after |-> after,
                      out |-> IF IsOk(er)
                              THEN Ok(Summary(MetricsOf(1, before).val,
                                              MetricsOf(1, after).val, er.val))
                              ELSE er]]
       /\ callers' = [callers EXCEPT ![1].at = @ + 1]
       /\ UNCHANGED <<arrays, objs, baseline, history, optimizer, optCalls, appended, writes,
                      screenVars, voiceVars>>

\* two callers on one analyzer, their calls interleaved in every order
NextShared ==
    \/ \E c \in Callers : CallerAnalyze(c)
    \/ SummaryReturn

SpecShared == InitShared /\ [][NextShared]_vars

----------------------------------------------------------------------------
(* The screen feed witnessing layer and its components, each driven as its   *)
(* unit test drives it; the thermal objects are not in use                   *)

ThermalIdle ==
    /\ arrays = <<>>
    /\ objs = <<>>
    /\ baseline = [a \in Analyzers |-> T_BASE]
    /\ history = [a \in Analyzers |-> <<>>]
    /\ optimizer = DefaultOptimizer
    /\ ret = [a \in Analyzers |-> NoCall]
    /\ optCalls = <<>>
    /\ appended = [a \in Analyzers |-> <<>>]
    /\ writes = 0

InitScreen == ThermalIdle /\ CallersIdle /\ ScreenIdle /\ VoiceIdle

\* the event types the driver witnesses
EventVals == {"click", "drag", "drop", "scroll"}

\* the pattern type sequences the driver hands to extract_paradigm: none, the
\* drag and drop pattern, one that matches two paradigms, one that matches the
\* later of the two, one that matches nothing
SequenceVals ==
    {<<>>, <<"click", "drag", "drop">>, <<"hover", "scroll">>, <<"scroll">>, <<"type">>}

\* the UXParadigm objects the driver proposes adaptations for
ParadigmVals ==
    {[paradigm_id |-> "test", paradigm_name |-> "Test Paradigm", occurrences |-> 5,
      confidence |-> 80, examples |-> <<>>],
     [paradigm_id |-> "drag_and_drop", paradigm_name |-> "Drag and Drop", occurrences |-> 1,
      confidence |-> 70, examples |-> <<>>]}

SetPrivacyConsent(consent) ==
    /\ layer' = [layer EXCEPT !.privacy_consent = consent]
    /\ layerRet' = [op |-> "set_privacy_consent", consent |-> consent]
    /\ UNCHANGED <<thermalVars, callerVars, voiceVars>>

WitnessInteraction(event_type) ==
    LET r == witness_interaction(layer, event_type)
    IN /\ Len(layer.pattern_detector.detected_patterns) < MaxWitness
       /\ layer' = r.self
       /\ layerRet' = [op |-> "witness_interaction", event_type |-> event_type, out |-> r.out]
       /\ UNCHANGED <<thermalVars, callerVars, voiceVars>>

\* layer.paradigm_extractor.extract_paradigm on patterns of the given types
ExtractParadigm(types) ==
    LET r == extract_paradigm(layer.paradigm_extractor,
                              [k \in 1..Len(types) |-> InteractionPattern(k, types[k])])
        occ == layer.paradigm_extractor.paradigm_occurrences
    IN /\ SumSeq([k \in 1..Len(KNOWN_PARADIGMS) |-> occ[KNOWN_PARADIGMS[k].key]]) < MaxExtract
       /\ layer' = [layer EXCEPT !.paradigm_extractor = r.self]
       /\ layerRet' = [op |-> "extract_paradigm", sequence |-> types, out |-> r.out]
       /\ UNCHANGED <<thermalVars, callerVars, voiceVars>>

\* layer.evolution_controller.propose_adaptation
ProposeAdaptation(paradigm) ==
    LET r == propose_adaptation(layer.evolution_controller, paradigm)
    IN /\ Len(layer.evolution_controller.adaptations) < MaxAdapt
       /\ layer' = [layer EXCEPT !.evolution_controller = r.self]
       /\ layerRet' = [op |-> "propose_adaptation", out |-> r.out]
       /\ UNCHANGED <<thermalVars, callerVars, voiceVars>>

\* layer.evolution_controller.apply_adaptation
ApplyAdaptation(adaptation_id) ==
    LET r == apply_adaptation(layer.evolution_controller, adaptation_id)
    IN /\ layer' = [layer EXCEPT !.evolution_controller = r.self]
       /\ layerRet' = [op |-> "apply_adaptation", adaptation_id |-> adaptation_id,
                       out |-> r.out]
       /\ UNCHANGED <<thermalVars, callerVars, voiceVars>>

\* the layer's own interface
NextWitness ==
    \/ \E consent \in BOOLEAN : SetPrivacyConsent(consent)
    \/ \E event_type \in EventVals : WitnessInteraction(event_type)

SpecWitness == InitScreen /\ [][NextWitness]_vars

\* a controller on its own: proposals, and applications by id, ids never issued
\* included
NextEvolve ==
    \/ \E paradigm \in ParadigmVals : ProposeAdaptation(paradigm)
    \/ \E adaptation_id \in 0..MaxAdapt : ApplyAdaptation(adaptation_id)

SpecEvolve == InitScreen /\ [][NextEvolve]_vars

\* an extractor on its own
NextExtract == \E types \in SequenceVals : ExtractParadigm(types)

SpecExtract == InitScreen /\ [][NextExtract]_vars

----------------------------------------------------------------------------
(* The voice integration layer and its components, each driven as its unit   *)
(* test drives it; the thermal objects and the screen layer are not in use   *)

InitVoice == ThermalIdle /\ CallersIdle /\ ScreenIdle /\ VoiceIdle

\* the audio chunks the driver buffers
ChunkVals == {"chunk1", "chunk2"}

\* b"" and b"test"
AudioVals == {<<>>, <<116, 101, 115, 116>>}

LanguageVals == {"en-US", "fr-FR"}

\* the profile names the driver adds, and the voices it asks for
ProfileNames == {"default", "custom", "robot"}

VoiceNames == ProfileNames \cup {"nonexistent"}

\* pitches below, inside and above the range add_voice_profile keeps
PitchVals == {SCALE \div 20, (3 * SCALE) \div 2, 3 * SCALE}

\* the texts the driver has analysed directly
TextVals ==
    {<<"Open", "calendar">>, <<"what", "is", "the", "weather?">>,
     <<"is", "it", "ready?">>, <<"hello">>, <<"stop">>}

\* the chunks the lists returned so far should hold, by the caller's notes
ChunksReturned ==
    SumSeq([k \in 1..Len(flushed.returned) |-> Len(flushed.returned[k].chunks)])

\* processor.buffer_input(chunk); the caller notes the chunk as pending
BufferInput(audio_chunk) ==
    LET r == buffer_input(voiceLayer.input_processor, lists, audio_chunk)
    IN /\ ChunksReturned + Len(flushed.pending) < MaxChunks
       /\ voiceLayer' = [voiceLayer EXCEPT !.input_processor = r.self]
       /\ lists' = r.heap
       /\ flushed' = [flushed EXCEPT !.pending = Append(@, [data |-> audio_chunk])]
       /\ voiceRet' = [op |-> "buffer_input", audio_chunk |-> audio_chunk]
       /\ UNCHANGED <<thermalVars, callerVars, screenVars>>

\* chunks = processor.flush_buffer(); the caller keeps the list and notes what
\* it should hold
FlushBuffer ==
    LET r == flush_buffer(voiceLayer.input_processor, lists)
    IN /\ Len(flushed.returned) < MaxFlush
       /\ voiceLayer' = [voiceLayer EXCEPT !.input_processor = r.self]
       /\ lists' = r.heap
       /\ flushed' = [returned |-> Append(flushed.returned,
                                          [ref |-> r.out, chunks |-> flushed.pending]),
                      pending |-> <<>>]
       /\ voiceRet' = [op |-> "flush_buffer", out |-> r.out]
       /\ UNCHANGED <<thermalVars, callerVars, screenVars>>

\* tts.add_voice_profile(name, pitch = pitch)
AddVoiceProfile(name, pitch) ==
    /\ voiceLayer' = [voiceLayer EXCEPT !.text_to_speech =
                          add_voice_profile(@, name, pitch, SCALE, SCALE)]
    /\ voiceRet' = [op |-> "add_voice_profile", name |-> name]
    /\ UNCHANGED <<lists, flushed, thermalVars, callerVars, screenVars>>

\* tts.set_voice(voice)
SetVoice(voice) ==
    LET r == set_voice(voiceLayer.text_to_speech, voice)
    IN /\ voiceLayer' = [voiceLayer EXCEPT !.text_to_speech = r.self]
       /\ voiceRet' = [op |-> "set_voice", voice |-> voice, out |-> r.out]
       /\ UNCHANGED <<lists, flushed, thermalVars, callerVars, screenVars>>

\* layer.process_voice_input(audio_data, language)
ProcessVoiceInput(audio_data, language) ==
    LET r == process_voice_input(voiceLayer, audio_data, language)
    IN /\ Len(voiceLayer.interaction_log) < MaxVoice
       /\ voiceLayer' = r.self
       /\ voiceRet' = [op |-> "process_voice_input", out |-> r.out]
       /\ UNCHANGED <<lists, flushed, thermalVars, callerVars, screenVars>>

\* layer.pattern_recognizer.analyze_text(text), as the demonstration calls it
AnalyzeText(text) ==
    LET r == analyze_text(voiceLayer.pattern_recognizer, text)
    IN /\ Len(voiceLayer.pattern_recognizer.pattern_history) < MaxAnalyze
       /\ voiceLayer' = [voiceLayer EXCEPT !.pattern_recognizer = r.self]
       /\ voiceRet' = [op |-> "analyze_text", text |-> text, out |-> r.out]
       /\ UNCHANGED <<lists, flushed, thermalVars, callerVars, screenVars>>

\* the input processor's buffer
NextBuffer ==
    \/ \E audio_chunk \in ChunkVals : BufferInput(audio_chunk)
    \/ FlushBuffer

SpecBuffer == InitVoice /\ [][NextBuffer]_vars

\* the voice profiles
NextTts ==
    \/ \E name \in ProfileNames, pitch \in PitchVals : AddVoiceProfile(name, pitch)
    \/ \E voice \in VoiceNames : SetVoice(voice)

SpecTts == InitVoice /\ [][NextTts]_vars

\* the pipeline, and the recogniser used on its own
NextVoice ==
    \/ \E audio_data \in AudioVals, language \in LanguageVals :
           ProcessVoiceInput(audio_data, language)
    \/ \E text \in TextVals : AnalyzeText(text)

SpecVoice == InitVoice /\ [][NextVoice]_vars

----------------------------------------------------------------------------
(* Claims *)

\* the states of the returning analyze_state calls on analyzer a, in call order
AnalyzedStates(a) == [k \in 1..Len(appended[a]) |-> appended[a][k].state]

\* C1: after any sequence of returning analyze_state calls the history holds
\* exactly the analysed states, one entry per call, in call order; no earlier
\* entry is removed, replaced or reordered.
C1_HistoryIsCallOrder ==
    \A a \in Analyzers :
        /\ Len(history[a]) = Len(appended[a])
        /\ history[a] = AnalyzedStates(a)

C1_Witness ==
    /\ Len(history[1]) = 3
    /\ history[1][1] # history[1][2]
    /\ ret[1].op = "analyze_state"
    /\ IsOk(ret[1].out)

\* C2: a returning optimization_summary(before, after) grows the history by
\* exactly two entries, before and then after; entropy_reduction adds none.
C2_SummaryAppendsTwo ==
    [][\A a \in Analyzers :
          (/\ ret'[a].op = "optimization_summary"
           /\ IsOk(ret'[a].out)
           /\ (ret'[a] # ret[a] \/ history'[a] # history[a]))
          => history'[a] = history[a] \o <<ret'[a].state, ret'[a].after>>]_vars

C2_Witness ==
    /\ ret[1].op = "optimization_summary"
    /\ IsOk(ret[1].out)
    /\ ret[1].state # ret[1].after
    /\ history[1] = <<ret[1].after, ret[1].state, ret[1].after>>

SameArguments(c, d) ==
    /\ c.T_current = d.T_current
    /\ c.load = d.load
    /\ c.dt = d.dt
    /\ c.alpha = d.alpha
    /\ c.beta = d.beta

\* C3: optimize_temperature leaves its argument buffers and the optimizer's
\* alpha and beta unchanged, touches no history, and calls with the same
\* arguments return the same field whatever happened in between.
C3_OptimizePure ==
    /\ [][optCalls' # optCalls =>
            /\ arrays' = arrays
            /\ optimizer' = optimizer
            /\ history' = history
            /\ objs' = objs]_vars
    /\ [](\A i \in 1..Len(optCalls), j \in 1..Len(optCalls) :
            SameArguments(optCalls[i], optCalls[j]) => optCalls[i].out = optCalls[j].out)

C3_Witness ==
    /\ Len(optCalls) = 2
    /\ SameArguments(optCalls[1], optCalls[2])
    /\ IsOk(optCalls[2].out)
    /\ history[1] = <<1>>

\* C4: analyze_state and optimization_summary never modify the states they are
\* given: timestamp, temperature_field, computational_load and baseline_temp
\* are after the call what they were before it.
C4_StatesNotModified ==
    [][\A a \in Analyzers :
          (ret'[a] # ret[a] \/ history'[a] # history[a])
          => /\ objs' = objs
             /\ arrays' = arrays]_vars

C4_Witness ==
    /\ ret[1].op = "optimization_summary"
    /\ IsOk(ret[1].out)
    /\ Len(history[1]) = 3
    /\ history[1][1] = ret[1].state

\* C5 as stated: the history entry is an owned copy, so its field values stay
\* what they were at the time of the call.
C5_EntryKeepsCallTimeValues ==
    \A a \in Analyzers : \A k \in 1..Len(history[a]) :
        FieldsOf(history[a][k]) = appended[a][k].fields

\* C5 amended: the history entry is the caller's state object itself, not a
\* copy: the field values read through the entry are at all times the values
\* the caller's state has now, also after the caller wrote to its buffers.
C5_EntryAliasesCallerState ==
    \A a \in Analyzers : \A k \in 1..Len(history[a]) :
        FieldsOf(history[a][k]) = FieldsOf(appended[a][k].state)

C5_Witness ==
    /\ writes > 0
    /\ \E k \in 1..Len(history[1]) :
          /\ FieldsOf(history[1][k]).temperature_field # appended[1][k].fields.temperature_field
          /\ FieldsOf(history[1][k]) = FieldsOf(appended[1][k].state)

----------------------------------------------------------------------------
(* Claims about the functions, under SpecFn and SpecOpt: the one state is objs[1] *)

StateT == FieldsOf(1).temperature_field

StateLoad == FieldsOf(1).computational_load

Analyzed(a) == ret[a].op = "analyze_state"

\* C6 as stated: for equal lengths >= 1 neither analyze_state nor
\* optimize_temperature raises.
C6_NeverRaisesFromLengthOne ==
    /\ \A a \in Analyzers :
          Analyzed(a) /\ Len(StateT) = Len(StateLoad) => IsOk(ret[a].out)
    /\ \A k \in 1..Len(optCalls) :
          Len(optCalls[k].T_current) = Len(optCalls[k].load) => IsOk(optCalls[k].out)

\* C6 amended: for equal lengths >= 2 (length 2 included) analyze_state returns
\* metrics and optimize_temperature returns a field; for length 1 both raise
\* ValueError, np.gradient needing two elements.
C6_RaisesOnlyForLengthOne ==
    /\ \A a \in Analyzers :
          Analyzed(a) /\ Len(StateT) = Len(StateLoad) =>
              IF Len(StateT) >= 2 THEN IsOk(ret[a].out)
              ELSE ret[a].out = Raised("ValueError")
    /\ \A k \in 1..Len(optCalls) :
          Len(optCalls[k].T_current) = Len(optCalls[k].load) =>
              IF Len(optCalls[k].T_current) >= 2 THEN IsOk(optCalls[k].out)
              ELSE optCalls[k].out = Raised("ValueError")

C6_Witness ==
    /\ Len(StateT) = 2
    /\ Len(StateLoad) = 2
    /\ Analyzed(1)
    /\ IsOk(ret[1].out)
    /\ Len(optCalls) = 1
    /\ IsOk(optCalls[1].out)

\* C7 as stated: a state whose fields differ in length is analysed without an
\* error, metrics are returned and the state is appended.
C7_MismatchIsSilent ==
    \A a \in Analyzers :
        Analyzed(a) /\ Len(StateT) # Len(StateLoad) =>
            IsOk(ret[a].out) /\ history[a] = <<1>>

\* C7 amended: a state whose fields differ in length makes analyze_state raise
\* ValueError and append nothing, unless computational_load has length 1 (and
\* temperature_field at least 2): only then the load broadcasts, metrics are
\* returned and the state is appended.
C7_MismatchRaisesUnlessBroadcast ==
    \A a \in Analyzers :
        Analyzed(a) /\ Len(StateT) # Len(StateLoad) =>
            IF Len(StateLoad) = 1
            THEN IsOk(ret[a].out) /\ history[a] = <<1>>
            ELSE ret[a].out = Raised("ValueError") /\ history[a] = <<>>

C7_Witness ==
    /\ Len(StateT) = 2
    /\ Len(StateLoad) = 3
    /\ Analyzed(1)
    /\ ~IsOk(ret[1].out)
    /\ history[1] = <<>>

\* C8: for the same state and target, analyzers constructed with different
\* baseline_temp return identical ThermalMetrics, entropy included.
C8_MetricsIndependentOfAnalyzerBaseline ==
    \A a \in Analyzers, b \in Analyzers :
        Analyzed(a) /\ Analyzed(b) /\ IsOk(ret[a].out) /\ IsOk(ret[b].out)
            => ret[a].out.val = ret[b].out.val

\* C9: optimize_temperature returns a field of the length of T_current, for
\* every T_current and load of equal length >= 2 and every dt, alpha and beta.
C9_OptimizePreservesLength ==
    \A k \in 1..Len(optCalls) :
        LET c == optCalls[k]
        IN Len(c.T_current) = Len(c.load) /\ Len(c.T_current) >= 2 =>
               IsOk(c.out) /\ Len(c.out.val) = Len(c.T_current)

C9_Witness ==
    /\ Len(optCalls) = 1
    /\ Len(optCalls[1].T_current) = 3
    /\ Len(optCalls[1].load) = 3
    /\ IsOk(optCalls[1].out)
    /\ Len(optCalls[1].out.val) = 3

\* 298.15 + 5.0 * load[i] / (max(load) + EPSILON)
C10_TLoad(load, i) ==
    (29815 * SCALE) \div 100 + Mul(5 * SCALE, DivEps(load[i], MaxSeq(load)))

\* C10: at every position i the returned field is
\* T[i] + dt * (alpha * L[i] - beta * (T[i] - T_load[i])), L the gradient applied
\* twice to T_current and T_load[i] = 298.15 + 5.0 * load[i] / (max(load) + EPSILON).
C10_EulerStepFormula ==
    \A k \in 1..Len(optCalls) :
        LET c == optCalls[k]
            T == c.T_current
            L == Gradient(Gradient(T))
        IN IsOk(c.out) /\ Len(T) = Len(c.load) =>
               \A i \in 1..Len(T) :
                   c.out.val[i] =
                       T[i] + Mul(c.dt, Mul(c.alpha, L[i])
                                        - Mul(c.beta, T[i] - C10_TLoad(c.load, i)))

C10_Witness ==
    /\ Len(optCalls) = 1
    /\ IsOk(optCalls[1].out)
    /\ optCalls[1].T_current = <<310 * SCALE, 299 * SCALE, 310 * SCALE>>
    /\ optCalls[1].load = <<SCALE, 0, SCALE>>
    /\ optCalls[1].out.val # optCalls[1].T_current

----------------------------------------------------------------------------
(* Claims about the metric functions called directly, under SpecMetric *)

Called(op) == ret[1].op = op /\ IsOk(ret[1].out)

\* C11: homeostasis_score returns a value in [0, 1] for every pair of fields of
\* equal length, on the constant-target branch and on the clamped branch.
C11_HomeostasisInUnitInterval ==
    Called("homeostasis_score") =>
        ret[1].out.val >= 0 /\ ret[1].out.val <= SCALE

\* the target varies and the deviation exceeds its spread: 1 - mean_dev / std is
\* negative and the clamp returns 0
C11_Witness ==
    /\ Called("homeostasis_score")
    /\ Std(ret[1].T_target) > 0
    /\ LET d == Minus(ret[1].T_actual, ret[1].T_target)
       IN Mean([i \in 1..Len(d) |-> Abs(d[i])]) > Std(ret[1].T_target)
    /\ ret[1].out.val = 0

\* C12: homeostasis_score(T, T) is exactly 1.0 for every field T, constant or
\* varying.
C12_SelfMatchIsOne ==
    Called("homeostasis_score") /\ ret[1].T_actual = ret[1].T_target =>
        ret[1].out.val = SCALE

C12_Witness ==
    /\ Called("homeostasis_score")
    /\ ret[1].T_actual = ret[1].T_target
    /\ \E i \in 1..Len(ret[1].T_target) : ret[1].T_target[i] # ret[1].T_target[1]
    /\ ret[1].out.val = SCALE

\* the entropies of the two fields of an entropy_reduction call
SBefore == thermal_entropy(baseline[1], ret[1].T_before, ret[1].load).val

SAfter == thermal_entropy(baseline[1], ret[1].T_after, ret[1].load).val

\* C13: entropy_reduction returns exactly 0.0 whenever the entropy of T_before
\* is below EPSILON, for every T_after; otherwise (S_before - S_after) / S_before.
C13_ReductionZeroOrRatio ==
    Called("entropy_reduction") =>
        IF SBefore <= 0 THEN ret[1].out.val = 0
        ELSE ret[1].out.val = TDiv((SBefore - SAfter) * SCALE, SBefore)

C13_Witness ==
    /\ Called("entropy_reduction")
    /\ SBefore = 0
    /\ SAfter > 0
    /\ ret[1].out.val = 0

NonNegative(load) == \A i \in 1..Len(load) : load[i] >= 0

C15_EntropyNonNegative ==
    Called("thermal_entropy") => ret[1].out.val >= 0

----------------------------------------------------------------------------

\* C16: the alignment_coefficient in the metrics analyze_state returns lies in
\* [-1, 1].
C16_AlignmentInRange ==
    \A a \in Analyzers :
        Analyzed(a) /\ IsOk(ret[a].out) =>
            /\ ret[a].out.val.alignment_coefficient >= -SCALE
            /\ ret[a].out.val.alignment_coefficient <= SCALE

\* a field and a load that rise and fall together: the coefficient is at its bound
C16_Witness ==
    /\ Analyzed(1)
    /\ IsOk(ret[1].out)
    /\ Len(StateT) = 3
    /\ Len(StateLoad) = 3
    /\ ret[1].out.val.alignment_coefficient > (9 * SCALE) \div 10

\* C17: the result of optimization_summary holds the metrics of the before and
\* of the after state, entropy_reduction(before.T, after.T, before.load) and the
\* four deltas before - after for curvature and gradient, after - before for
\* homeostasis and alignment.
C17_SummaryDeltas ==
    [][\A a \in Analyzers :
          (/\ ret'[a] # ret[a]
           /\ ret'[a].op = "optimization_summary"
           /\ IsOk(ret'[a].out))
          => LET r == ret'[a].out.val
                 b == FieldsOf(ret'[a].state)
                 f == FieldsOf(ret'[a].after)
             IN /\ Ok(r.before) = MetricsOf(a, ret'[a].state)
                /\ Ok(r.after) = MetricsOf(a, ret'[a].after)
                /\ Ok(r.improvements.entropy_reduction) =
                       entropy_reduction(baseline[a], b.temperature_field,
                                         f.temperature_field, b.computational_load)
                /\ r.improvements.curvature_reduction = r.before.curvature - r.after.curvature
                /\ r.improvements.homeostasis_improvement =
                       r.after.homeostasis_score - r.before.homeostasis_score
                /\ r.improvements.gradient_reduction =
                       r.before.gradient_magnitude - r.after.gradient_magnitude
                /\ r.improvements.alignment_improvement =
                       r.after.alignment_coefficient - r.before.alignment_coefficient]_vars

\* a summary whose entropy_reduction tells the before state's load from the
\* after state's, and whose deltas are not all zero
C17_Witness ==
    /\ ret[1].op = "optimization_summary"
    /\ IsOk(ret[1].out)
    /\ ret[1].state # ret[1].after
    /\ ret[1].out.val.improvements.alignment_improvement < 0
    /\ ret[1].out.val.improvements.gradient_reduction # 0
    /\ LET b == FieldsOf(ret[1].state)
           f == FieldsOf(ret[1].after)
       IN Ok(ret[1].out.val.improvements.entropy_reduction) #
              entropy_reduction(baseline[1], b.temperature_field,
                                f.temperature_field, f.computational_load)

----------------------------------------------------------------------------
(* Claims about the screen feed witnessing layer *)

\* a step that is a call of op on the layer or a component
LayerCall(op) ==
    /\ layerRet'.op = op
    /\ (layerRet' # layerRet \/ layer' # layer)

\* C18: while privacy_consent is False every witness_interaction call returns
\* status 'denied' and runs no stage: capture count, detected patterns, learned
\* paradigms, adaptations and witnessing_log are what they were.
C18_DeniedWithoutConsent ==
    [][LayerCall("witness_interaction") /\ ~layer.privacy_consent =>
          /\ layerRet'.out = [status |-> "denied"]
          /\ layer'.screen_capture.capture_count = layer.screen_capture.capture_count
          /\ layer'.pattern_detector.detected_patterns =
                 layer.pattern_detector.detected_patterns
          /\ layer'.paradigm_extractor.learned_paradigms =
                 layer.paradigm_extractor.learned_paradigms
          /\ layer'.evolution_controller.adaptations = layer.evolution_controller.adaptations
          /\ layer'.witnessing_log = layer.witnessing_log
          /\ layer' = layer]_vars

\* consent was given, calls were witnessed, consent was withdrawn and the next
\* call denied
C18_Witness ==
    /\ layerRet.op = "witness_interaction"
    /\ layerRet.out = [status |-> "denied"]
    /\ ~layer.privacy_consent
    /\ Len(layer.witnessing_log) = 2
    /\ Len(layer.evolution_controller.adaptations) = 1

\* the indices of the adaptations with this id that are still proposed
ProposedWithId(c, id) ==
    {k \in 1..Len(c.adaptations) :
        c.adaptations[k].adaptation_id = id /\ c.adaptations[k].status = "proposed"}

\* C19: apply_adaptation(id) returns True only when an adaptation with that id
\* exists with status 'proposed', and then sets it to 'applied'; a later apply
\* of the same id and a call with an unknown id return False and leave the
\* statuses and the evolution state unchanged; no adaptation goes from
\* 'applied' back to 'proposed'.
C19_AppliedAtMostOnce ==
    [][LET c == layer.evolution_controller
           d == layer'.evolution_controller
       IN /\ LayerCall("apply_adaptation") =>
                LET hit == ProposedWithId(c, layerRet'.adaptation_id)
                IN /\ layerRet'.out = (hit # {})
                   /\ hit # {} =>
                         /\ Len(d.adaptations) = Len(c.adaptations)
                         /\ \A k \in 1..Len(c.adaptations) :
                               d.adaptations[k].status =
                                   IF k \in hit THEN "applied" ELSE c.adaptations[k].status
                   /\ hit = {} => d = c
          /\ \A k \in 1..Len(c.adaptations) :
                c.adaptations[k].status = "applied" => d.adaptations[k].status = "applied"]_vars

\* the second apply_adaptation of an id returned False
C19_Witness ==
    /\ layerRet.op = "apply_adaptation"
    /\ layerRet.out = FALSE
    /\ \E k \in 1..Len(layer.evolution_controller.adaptations) :
          /\ layer.evolution_controller.adaptations[k].adaptation_id = layerRet.adaptation_id
          /\ layer.evolution_controller.adaptations[k].status = "applied"
    /\ layer.evolution_controller.evolution_state.total_adaptations = 1

\* the keys of the learned paradigms whose pattern the sequence matches
LearnedMatches(x, types) ==
    {KNOWN_PARADIGMS[k].key : k \in Matching(types)} \cap DOMAIN x.learned_paradigms

\* C20 as stated: every extract_paradigm call whose sequence matches a learned
\* paradigm raises that paradigm's occurrences by 1 and leaves its confidence
\* strictly greater than before.
C20_MatchRaisesConfidence ==
    [][LET x == layer.paradigm_extractor
           y == layer'.paradigm_extractor
       IN LayerCall("extract_paradigm") =>
             \A key \in LearnedMatches(x, layerRet'.sequence) :
                 /\ y.learned_paradigms[key].occurrences =
                        x.learned_paradigms[key].occurrences + 1
                 /\ y.learned_paradigms[key].confidence >
                        x.learned_paradigms[key].confidence]_vars

\* C20 amended: an extract_paradigm call updates the first entry of
\* KNOWN_PARADIGMS its sequence matches and no other; when that paradigm is
\* already learned its occurrences grow by exactly 1 and its confidence becomes
\* min(0.99, confidence + 0.05): strictly greater below 0.99, unchanged at 0.99.
C20_FirstMatchCappedConfidence ==
    [][LET x == layer.paradigm_extractor
           y == layer'.paradigm_extractor
           hits == Matching(layerRet'.sequence)
       IN LayerCall("extract_paradigm") /\ hits # {} =>
             LET first == KNOWN_PARADIGMS[CHOOSE k \in hits : \A j \in hits : k <= j].key
             IN /\ layerRet'.out = first
                /\ \A key \in DOMAIN x.learned_paradigms :
                      LET old == x.learned_paradigms[key]
                          new == y.learned_paradigms[key]
                      IN IF key # first THEN new = old
                         ELSE /\ new.occurrences = old.occurrences + 1
                              /\ new.confidence =
                                     IF old.confidence + 5 > 99 THEN 99
                                     ELSE old.confidence + 5
                              /\ new.confidence > old.confidence <=> old.confidence < 99]_vars

\* a paradigm matched eight times: the eighth call found the confidence at
\* 0.99 and left it there
C20_Witness ==
    /\ layerRet.op = "extract_paradigm"
    /\ layerRet.out = "drag_and_drop"
    /\ layer.paradigm_extractor.learned_paradigms["drag_and_drop"].occurrences = 8
    /\ layer.paradigm_extractor.learned_paradigms["drag_and_drop"].confidence = 99

\* the results of the consented witness_interaction calls so far, the one just
\* returned included
WitnessResults ==
    {layer.witnessing_log[k] : k \in 1..Len(layer.witnessing_log)}
        \cup (IF layerRet.op = "witness_interaction" /\ layerRet.out # Denied
              THEN {layerRet.out} ELSE {})

\* C21: in every result of a consented witness_interaction call the stage
\* 'evolution_proposal' is present exactly when 'paradigm_extraction' is, and
\* 'screen_capture', 'ui_recognition' and 'pattern_detection' are always present.
C21_ProposalIffExtraction ==
    \A r \in WitnessResults :
        /\ {"screen_capture", "ui_recognition", "pattern_detection"} \subseteq DOMAIN r.stages
        /\ "evolution_proposal" \in DOMAIN r.stages
               <=> "paradigm_extraction" \in DOMAIN r.stages

\* one call with three stages and one with five, the latter just returned
C21_Witness ==
    /\ layerRet.op = "witness_interaction"
    /\ layerRet.out # Denied
    /\ DOMAIN layerRet.out.stages =
           {"screen_capture", "ui_recognition", "pattern_detection",
            "paradigm_extraction", "evolution_proposal"}
    /\ \E k \in 1..Len(layer.witnessing_log) :
           DOMAIN layer.witnessing_log[k].stages =
               {"screen_capture", "ui_recognition", "pattern_detection"}

\* the indices of the adaptations with this status
WithStatus(c, st) == {k \in 1..Len(c.adaptations) : c.adaptations[k].status = st}

\* C27: after any sequence of propose_adaptation and apply_adaptation calls
\* total_adaptations = number of adaptations with status 'applied' = length
\* of active_adaptations = length of adaptation_history, active_adaptations
\* holds no id twice, and get_adaptation_summary has total = proposed + applied.
C27_CountersConsistent ==
    LET c == layer.evolution_controller
        active == c.evolution_state.active_adaptations
        summary == get_adaptation_summary(c)
    IN /\ c.evolution_state.total_adaptations = Cardinality(WithStatus(c, "applied"))
       /\ c.evolution_state.total_adaptations = Len(active)
       /\ c.evolution_state.total_adaptations = Len(c.adaptation_history)
       /\ \A i, j \in 1..Len(active) : active[i] = active[j] => i = j
       /\ summary.total = summary.proposed + summary.applied

\* two adaptations applied, one of them applied for a second time in vain, and
\* one still proposed
C27_Witness ==
    /\ layerRet.op = "apply_adaptation"
    /\ layerRet.out = FALSE
    /\ layerRet.adaptation_id \in
           {layer.evolution_controller.evolution_state.active_adaptations[k] :
               k \in 1..Len(layer.evolution_controller.evolution_state.active_adaptations)}
    /\ Cardinality(WithStatus(layer.evolution_controller, "applied")) = 2
    /\ Cardinality(WithStatus(layer.evolution_controller, "proposed")) = 1

\* C28: witness_interaction only proposes: after any sequence of
\* set_privacy_consent and witness_interaction calls every adaptation of the
\* layer's controller has status 'proposed', total_adaptations is 0,
\* evolution_delta is 0.0 and active_adaptations is empty.
C28_WitnessNeverApplies ==
    LET c == layer.evolution_controller
    IN /\ \A k \in 1..Len(c.adaptations) : c.adaptations[k].status = "proposed"
       /\ c.evolution_state.total_adaptations = 0
       /\ c.evolution_state.evolution_delta = 0
       /\ c.evolution_state.active_adaptations = <<>>

\* two adaptations proposed by witnessed calls, consent withdrawn afterwards
C28_Witness ==
    /\ Len(layer.evolution_controller.adaptations) = 2
    /\ layer.evolution_controller.adaptations[2].evolution_delta > 0
    /\ layerRet.op = "set_privacy_consent"
    /\ ~layer.privacy_consent

\* the pattern types of the (at most five) latest detected patterns
WindowTypes(l) ==
    LET d == l.pattern_detector.detected_patterns
    IN [k \in 1..(IF Len(d) < 5 THEN Len(d) ELSE 5) |->
           d[Len(d) - (IF Len(d) < 5 THEN Len(d) ELSE 5) + k].pattern_type]

\* the occurrences of a paradigm, 0 when it was never learned
Occurrences(l, key) ==
    IF key \in DOMAIN l.paradigm_extractor.learned_paradigms
    THEN l.paradigm_extractor.learned_paradigms[key].occurrences ELSE 0

\* the call appended exactly one proposed adaptation, for the paradigm named
OneMoreProposal(c, d, name) ==
    /\ Len(d.adaptations) = Len(c.adaptations) + 1
    /\ SubSeq(d.adaptations, 1, Len(c.adaptations)) = c.adaptations
    /\ d.adaptations[Len(d.adaptations)].paradigm = name
    /\ d.adaptations[Len(d.adaptations)].status = "proposed"

\* C29 as stated: once a known pattern has been witnessed, each following
\* consented witness_interaction while that pattern is still inside the
\* last-five window increments the same paradigm's occurrences again and
\* creates one more proposed adaptation.
C29_SameParadigmCountsAgain ==
    [][LayerCall("witness_interaction") /\ layer.privacy_consent =>
          \A k \in Matching(WindowTypes(layer')) :
              KNOWN_PARADIGMS[k].key \in DOMAIN layer.paradigm_extractor.learned_paradigms =>
                  /\ Occurrences(layer', KNOWN_PARADIGMS[k].key) =
                         Occurrences(layer, KNOWN_PARADIGMS[k].key) + 1
                  /\ OneMoreProposal(layer.evolution_controller,
                                     layer'.evolution_controller,
                                     KNOWN_PARADIGMS[k].name)]_vars

\* C29 amended: a consented witness_interaction matches the last five detected
\* patterns; when they match an entry of KNOWN_PARADIGMS the first such entry,
\* and no other, has its occurrences raised by one and one more proposed
\* adaptation for it is created, so a pattern is counted again by every call
\* while it stays in the window unless an earlier entry matches too; when they
\* match no entry nothing is counted and nothing proposed.
C29_FirstMatchInWindowCounts ==
    [][LayerCall("witness_interaction") /\ layer.privacy_consent =>
          LET hits == Matching(WindowTypes(layer'))
              first == CHOOSE k \in hits : \A j \in hits : k <= j
          IN /\ \A k \in 1..Len(KNOWN_PARADIGMS) :
                    Occurrences(layer', KNOWN_PARADIGMS[k].key) =
                        Occurrences(layer, KNOWN_PARADIGMS[k].key)
                            + (IF hits # {} /\ k = first THEN 1 ELSE 0)
             /\ IF hits = {}
                THEN layer'.evolution_controller = layer.evolution_controller
                ELSE OneMoreProposal(layer.evolution_controller,
                                     layer'.evolution_controller,
                                     KNOWN_PARADIGMS[first].name)]_vars

\* click, drag, drop was counted by the call that completed it and by the two
\* calls after it; the sixth call found it out of the window and counted nothing
C29_Witness ==
    /\ layerRet.op = "witness_interaction"
    /\ Len(layer.pattern_detector.detected_patterns) = 6
    /\ [k \in 1..3 |-> layer.pattern_detector.detected_patterns[k].pattern_type] =
           <<"click", "drag", "drop">>
    /\ Occurrences(layer, "drag_and_drop") = 3
    /\ Len(layer.evolution_controller.adaptations) = 3
    /\ DOMAIN layerRet.out.stages = {"screen_capture", "ui_recognition", "pattern_detection"}

----------------------------------------------------------------------------
(* Claims about failing calls and shared analyzers *)

\* C24: if a metric computation inside analyze_state raises, the state is not
\* appended: the history after the failed call is the history before it.
C24_FailedAnalyzeAppendsNothing ==
    [][\A a \in Analyzers :
          (/\ ret'[a].op = "analyze_state"
           /\ ~IsOk(ret'[a].out)
           /\ (ret'[a] # ret[a] \/ history'[a] # history[a]))
          => history' = history]_vars

\* an analyze_state call raised on an analyzer whose history already held an
\* entry, and the entry is all the history holds
C24_Witness ==
    /\ ret[1].op = "analyze_state"
    /\ ~IsOk(ret[1].out)
    /\ ret[1].state = 2
    /\ history[1] = <<1>>

\* C25: optimization_summary is not all-or-nothing on history: when analysing
\* `before` succeeds and analysing `after` raises the call fails with the
\* history grown by `before`, when both succeed and entropy_reduction raises
\* it fails with the history grown by `before` and `after`; nothing is rolled
\* back.  When analysing `before` raises the history is as it was.
C25_FailedSummaryKeepsAppends ==
    [][\A a \in Analyzers :
          (/\ ret'[a].op = "optimization_summary"
           /\ ~IsOk(ret'[a].out)
           /\ (ret'[a] # ret[a] \/ history'[a] # history[a]))
          => LET before == ret'[a].state
                 after == ret'[a].after
             IN history'[a] =
                    IF ~IsOk(MetricsOf(a, before)) THEN history[a]
                    ELSE IF ~IsOk(MetricsOf(a, after)) THEN history[a] \o <<before>>
                    ELSE history[a] \o <<before, after>>]_vars

\* a summary failed in entropy_reduction after both states were appended to a
\* history that held one entry
C25_Witness ==
    /\ ret[1].op = "optimization_summary"
    /\ ~IsOk(ret[1].out)
    /\ ret[1].state # ret[1].after
    /\ history[1] = <<ret[1].after, ret[1].state, ret[1].after>>

\* the entries of the history that are states of caller c, in history order
EntriesOf(c) ==
    LET Mine(s) == \E k \in 1..Len(Program(c)) : Program(c)[k] = s
    IN SelectSeq(history[1], Mine)

\* C26: when two callers share one analyzer and their analyze_state calls
\* interleave, each call one step, no append is lost or duplicated: the
\* history holds every analysed state exactly once and each caller's states in
\* that caller's call order.
C26_InterleavedAppendsKept ==
    /\ Len(history[1]) = Len(callers[1].returned) + Len(callers[2].returned)
    /\ \A c \in Callers : EntriesOf(c) = callers[c].returned

\* caller 1's summary returned with caller 2's state between its before and
\* its after
C26_Witness ==
    /\ ret[1].op = "optimization_summary"
    /\ IsOk(ret[1].out)
    /\ callers[1].at = 3
    /\ history[1] = <<1, 3, 2>>

----------------------------------------------------------------------------
(* Claims about the voice integration layer *)

\* a step that is a call of op on the voice layer or a component
VoiceCall(op) ==
    /\ voiceRet'.op = op
    /\ (voiceRet' # voiceRet \/ voiceLayer' # voiceLayer \/ lists' # lists)

\* C22: flush_buffer returns every chunk buffered by buffer_input since the
\* previous flush, in the order buffered, and leaves the buffer empty; a
\* second flush with no buffer_input in between returns an empty list; a list
\* returned by an earlier flush is not changed by later buffer_input calls.
C22_FlushReturnsBufferedChunks ==
    /\ \A k \in 1..Len(flushed.returned) :
           lists[flushed.returned[k].ref] = flushed.returned[k].chunks
    /\ \A k \in 1..Len(flushed.returned) :
           flushed.returned[k].ref # voiceLayer.input_processor.buffer
    /\ lists[voiceLayer.input_processor.buffer] = flushed.pending
    /\ voiceRet.op = "flush_buffer" => lists[voiceLayer.input_processor.buffer] = <<>>

\* two chunks were flushed, a second flush at once returned the empty list,
\* and a chunk buffered afterwards is in neither
C22_Witness ==
    /\ Len(flushed.returned) = 2
    /\ lists[flushed.returned[1].ref] = <<[data |-> "chunk1"], [data |-> "chunk2"]>>
    /\ lists[flushed.returned[2].ref] = <<>>
    /\ voiceRet.op = "buffer_input"
    /\ lists[voiceLayer.input_processor.buffer] = <<[data |-> "chunk1"]>>

\* C23: set_voice(v) returns True and makes v the current voice exactly when v
\* is a key of voice_profiles, otherwise it returns False and leaves
\* current_voice unchanged; after every add_voice_profile and set_voice call
\* current_voice is a key of voice_profiles.
C23_SetVoiceOnlyKnownProfiles ==
    [][LET t == voiceLayer.text_to_speech
           u == voiceLayer'.text_to_speech
       IN /\ VoiceCall("set_voice") =>
                /\ voiceRet'.out = (voiceRet'.voice \in DOMAIN t.voice_profiles)
                /\ u.current_voice = IF voiceRet'.voice \in DOMAIN t.voice_profiles
                                     THEN voiceRet'.voice ELSE t.current_voice
                /\ u.voice_profiles = t.voice_profiles
          /\ u.current_voice \in DOMAIN u.voice_profiles]_vars

\* a profile was added and chosen, and a voice without a profile was refused
C23_Witness ==
    /\ voiceRet.op = "set_voice"
    /\ voiceRet.voice = "nonexistent"
    /\ voiceRet.out = FALSE
    /\ voiceLayer.text_to_speech.current_voice = "custom"
    /\ voiceLayer.text_to_speech.voice_profiles["custom"].pitch = 2 * SCALE

\* C30: process_voice_input never reaches stages 3 to 5: every result holds
\* exactly the stages 'audio_processing' and 'speech_to_text', the pattern
\* recognizer, the command interpreter and the feedback engine are unchanged
\* (total_adaptations stays 0), and interaction_log, processed_count and the
\* recognition history each grow by exactly one per call.
C30_PipelineStopsAfterRecognition ==
    [][VoiceCall("process_voice_input") =>
          /\ DOMAIN voiceRet'.out.stages = {"audio_processing", "speech_to_text"}
          /\ voiceLayer'.pattern_recognizer = voiceLayer.pattern_recognizer
          /\ voiceLayer'.command_interpreter = voiceLayer.command_interpreter
          /\ voiceLayer'.feedback_engine = voiceLayer.feedback_engine
          /\ voiceLayer'.feedback_engine.evolution_state.total_adaptations = 0
          /\ voiceLayer'.interaction_log = Append(voiceLayer.interaction_log, voiceRet'.out)
          /\ voiceLayer'.input_processor.processed_count =
                 voiceLayer.input_processor.processed_count + 1
          /\ Len(voiceLayer'.speech_to_text.recognition_history) =
                 Len(voiceLayer.speech_to_text.recognition_history) + 1]_vars

\* two calls went through the pipeline on a layer whose recogniser had
\* detected a command when called on its own
C30_Witness ==
    /\ voiceRet.op = "process_voice_input"
    /\ Len(voiceLayer.interaction_log) = 2
    /\ voiceLayer.input_processor.processed_count = 2
    /\ voiceLayer.pattern_recognizer.pattern_counts["app_launch"] = 1
    /\ voiceLayer.pattern_recognizer.pattern_counts["query"] = 1

====
